---- MODULE Spec2Model ----
(***************************************************************************)
(* OCR.Scanner: the batch worker BatchProcessor                            *)
(* (src/src/ocr_scanner/core/batch_processor.py).                          *)
(*                                                                         *)
(* The worker thread executes run() statement by statement (pc); the       *)
(* caller's cancel() may interleave with any of its steps.  The external   *)
(* collaborators (cv2.imread, the cv2 filters, pytesseract) are the        *)
(* environment: each call's outcome is chosen when the call is made.       *)
(* Every signal emission is appended to `events`, every external call to   *)
(* `calls`.                                                                *)
(***************************************************************************)
EXTENDS Integers, Sequences, FiniteSets, TLC

VARIABLES
    file_paths,            \* self.file_paths
    preprocessing_method,  \* self.preprocessing_method
    threshold_value,       \* self.threshold_value
    roi_rect,              \* self.roi_rect
    language,              \* self.language
    is_cancelled,          \* self.is_cancelled
    pc,                    \* position of the worker inside run()
    i,                     \* loop index of run() (0-based, as enumerate gives it)
    filename,              \* local `filename` of run()
    image,                 \* local `image` of run()
    processed_image,       \* local `processed_image` of run()
    text,                  \* local `text` of run()
    status,                \* local `status` of run()
    exc,                   \* the exception in flight (str(e)), when one was raised
    events,                \* signals emitted so far, in emission order
    calls,                 \* external calls made so far, in call order
    cancelledAt,           \* history: where the worker stood at the first cancel()
    tab,                   \* the batch tab of the GUI (BatchProcessingTab), when there is one
    probe                  \* one call of a pure function: its arguments and its result

job == <<file_paths, preprocessing_method, threshold_value, roi_rect, language>>
locals == <<i, filename, image, processed_image, text, status, exc>>
vars == <<file_paths, preprocessing_method, threshold_value, roi_rect, language,
          is_cancelled, pc, i, filename, image, processed_image, text, status,
          exc, events, calls, cancelledAt, tab, probe>>
\* what the worker and its caller never touch
harness == <<tab, probe>>

----------------------------------------------------------------------------
(* Bounds and input pools *)

MaxFiles == 2

\* shape of the images the loader decodes (the fixtures of the tests)
ImgH == 100
ImgW == 100

\* roi_rect = None (as falsy as the empty tuple in `if self.roi_rect`)
NoRoi == <<>>
\* the name `filename` before its first assignment
Unbound == "<unbound>"
NoImage == [src |-> <<>>, h |-> 0, w |-> 0, ch |-> 0, ops |-> <<>>]
NotCancelled == [called |-> FALSE, pc |-> "", i |-> 0, results |-> 0]
\* no GUI around the worker; no pure function under examination
NoTab == [present |-> FALSE]
NoProbe == [fn |-> "none"]

\* An element of the file list: a str path, the sequence of its
\* components, or an object that is no path (None, a number)
PathOf(k) ==
    [isstr |-> TRUE, parts |-> IF k % 2 = 1 THEN <<"in", "a.png">> ELSE <<"b.png">>]
NotAPath == [isstr |-> FALSE, parts |-> <<>>]
IsPathLike(p) == p.isstr

Methods == {"None", "Threshold"}
Rois == {NoRoi, <<10, 10, 50, 50>>, <<50, 50, 10, 10>>}

\* what pytesseract.image_to_string may return, character by character
EngineTexts == {<<>>, <<" ", "\n">>, <<" ", "a", "b", "\n">>}
\* str(e) of the exceptions the collaborators may raise
EngineErrors == {"TesseractError"}
StepErrors == {"cv2.error"}

----------------------------------------------------------------------------
(* Pure helpers *)

\* os.path.basename
os_path_basename(p) == p.parts[Len(p.parts)]

IsSpace(c) == c \in {" ", "\n", "\t", "\r"}

RECURSIVE lstrip(_)
lstrip(s) == IF s # <<>> /\ IsSpace(Head(s)) THEN lstrip(Tail(s)) ELSE s

RECURSIVE rstrip(_)
rstrip(s) ==
    IF s # <<>> /\ IsSpace(s[Len(s)]) THEN rstrip(SubSeq(s, 1, Len(s) - 1)) ELSE s

\* str.strip()
strip(s) == rstrip(lstrip(s))

Max(a, b) == IF a >= b THEN a ELSE b
Min(a, b) == IF a <= b THEN a ELSE b

\* cv2.imread on a decodable file: a 3-channel image of the fixture's shape
Decoded(p) == [src |-> p, h |-> ImgH, w |-> ImgW, ch |-> 3, ops |-> <<>>]

\* BatchProcessor._apply_preprocessing
_apply_preprocessing(img) ==
    IF preprocessing_method = "Grayscale"
    THEN [img EXCEPT !.ch = 1, !.ops = Append(@, <<"gray">>)]
    ELSE IF preprocessing_method = "Threshold"
    THEN [img EXCEPT !.ch = 1,
                     !.ops = Append(Append(@, <<"gray">>), <<"threshold", threshold_value>>)]
    ELSE IF preprocessing_method = "Adaptive Threshold"
    THEN [img EXCEPT !.ch = 1,
                     !.ops = Append(Append(@, <<"gray">>), <<"adaptive", 11, 2>>)]
    ELSE IF preprocessing_method = "Denoise"
    THEN [img EXCEPT !.ops = Append(@, <<"denoise", 10, 10, 7, 21>>)]
    ELSE img

\* BatchProcessor._apply_roi
_apply_roi(img) ==
    IF roi_rect = NoRoi THEN img
    ELSE LET x1 == Max(0, roi_rect[1])
             y1 == Max(0, roi_rect[2])
             x2 == Min(img.w, roi_rect[3])
             y2 == Min(img.h, roi_rect[4])
         IN  IF x2 > x1 /\ y2 > y1
             THEN [img EXCEPT !.h = y2 - y1, !.w = x2 - x1,
                              !.ops = Append(@, <<"crop", x1, y1, x2, y2>>)]
             ELSE img

\* how an external call ended: it returned, or it raised with message m
NoOutcome == [raised |-> FALSE, raw |-> <<>>, msg |-> ""]
Raised(m) == [raised |-> TRUE, raw |-> <<>>, msg |-> m]

\* BatchProcessor._run_ocr, given what the engine did: out.raised is TRUE
\* and out.msg the message, or out.raw is the returned string
_run_ocr(out) ==
    IF out.raised THEN <<<<>>, <<"OCR Error: ", out.msg>>>>
    ELSE LET t == strip(out.raw)
         IN  <<t, IF t # <<>> THEN <<"Success">> ELSE <<"No text detected">>>>

EngineOutcomes ==
    [raised : {FALSE}, raw : EngineTexts, msg : {""}]
        \cup {Raised(m) : m \in EngineErrors}

LoadErrorStatus == <<"Error: ", "Could not load image">>

\* int((i + 1) / total_files * 100); for the totals of this model the
\* float quotient truncates to the integer quotient
Progress(idx, total_files) == ((idx + 1) * 100) \div total_files

\* the three signals, as records of one shape
ResultEvent(f, t, s) ==
    [type |-> "result", filename |-> f, text |-> t, status |-> s, value |-> 0]
ProgressEvent(v) ==
    [type |-> "progress", filename |-> "", text |-> <<>>, status |-> <<>>, value |-> v]
FinishedEvent ==
    [type |-> "finished", filename |-> "", text |-> <<>>, status |-> <<>>, value |-> 0]

\* one external call: which, for which item, how it ended ("ok", "none",
\* "raise") and, for the engine, what it returned or raised
\* the call together with the image handed to it
CallWith(op, idx, ret, out, arg) ==
    [op |-> op, item |-> idx, ret |-> ret, out |-> out, arg |-> arg]
Call(op, idx, ret, out) == CallWith(op, idx, ret, out, NoImage)

----------------------------------------------------------------------------
(* Construction *)

InitLocals ==
    /\ pc = "check"
    /\ i = 0
    /\ filename = Unbound
    /\ image = NoImage
    /\ processed_image = NoImage
    /\ text = <<>>
    /\ status = <<>>
    /\ exc = ""
    /\ events = <<>>
    /\ calls = <<>>
    /\ cancelledAt = NotCancelled

\* BatchProcessor.__init__ on a list of paths
Init ==
    /\ \E n \in 0..MaxFiles : file_paths = [k \in 1..n |-> PathOf(k)]
    /\ preprocessing_method \in Methods
    /\ threshold_value = 127
    /\ roi_rect \in Rois
    /\ language = "eng"
    /\ is_cancelled = FALSE
    /\ InitLocals
    /\ tab = NoTab
    /\ probe = NoProbe

\* BatchProcessor.__init__ on a list that may hold objects that are no paths
InitAny ==
    /\ \E n \in 0..MaxFiles :
          file_paths \in [1..n -> {PathOf(1), PathOf(2), NotAPath}]
    /\ preprocessing_method \in Methods
    /\ threshold_value = 127
    /\ roi_rect \in Rois
    /\ language = "eng"
    /\ is_cancelled = FALSE
    /\ InitLocals
    /\ tab = NoTab
    /\ probe = NoProbe

----------------------------------------------------------------------------
(* The worker: BatchProcessor.run() *)

total_files == Len(file_paths)
file_path == file_paths[i + 1]
Results == SelectSeq(events, LAMBDA e : e.type = "result")

\* LoopHead without the test of the flag
LoopHeadNoCheck ==
    /\ pc = "check"
    /\ pc' = IF i >= total_files THEN "finish" ELSE "name"
    /\ UNCHANGED <<job, is_cancelled, locals, events, calls, cancelledAt, harness>>

\* LoopHead with `return` in the place of `break`
LoopHeadReturn ==
    /\ pc = "check"
    /\ pc' = IF i >= total_files THEN "finish"
             ELSE IF is_cancelled THEN "done" ELSE "name"
    /\ UNCHANGED <<job, is_cancelled, locals, events, calls, cancelledAt, harness>>

\* for ... in enumerate(self.file_paths): if self.is_cancelled: break
LoopHead ==
    /\ pc = "check"
    /\ pc' = IF i >= total_files \/ is_cancelled THEN "finish" ELSE "name"
    /\ UNCHANGED <<job, is_cancelled, locals, events, calls, cancelledAt, harness>>

\* filename = os.path.basename(file_path)
GetFilename ==
    /\ pc = "name"
    /\ IF IsPathLike(file_path)
       THEN /\ calls' = Append(calls, Call("basename", i, "ok", NoOutcome))
            /\ filename' = os_path_basename(file_path)
            /\ pc' = "load"
            /\ exc' = exc
       ELSE /\ calls' = Append(calls, Call("basename", i, "raise", Raised("TypeError")))
            /\ exc' = "TypeError"
            /\ pc' = "except"
            /\ filename' = filename
    /\ UNCHANGED <<job, is_cancelled, i, image, processed_image, text, status,
                   events, cancelledAt, harness>>

\* LoadImage without the `continue` after the load error
LoadImageNoContinue ==
    /\ pc = "load"
    /\ \/ /\ calls' = Append(calls, Call("imread", i, "ok", NoOutcome))
          /\ image' = Decoded(file_path)
          /\ events' = events
       \/ /\ calls' = Append(calls, Call("imread", i, "none", NoOutcome))
          /\ events' = Append(events, ResultEvent(filename, <<>>, LoadErrorStatus))
          /\ image' = image
    /\ pc' = "pre"
    /\ UNCHANGED <<job, is_cancelled, i, filename, processed_image, text, status,
                   exc, cancelledAt, harness>>

\* image = cv2.imread(file_path); if image is None: emit the load error
\* and `continue` with the next file
LoadImage ==
    /\ pc = "load"
    /\ \/ /\ calls' = Append(calls, Call("imread", i, "ok", NoOutcome))
          /\ image' = Decoded(file_path)
          /\ pc' = "pre"
          /\ UNCHANGED <<i, exc, events>>
       \/ /\ calls' = Append(calls, Call("imread", i, "none", NoOutcome))
          /\ events' = Append(events, ResultEvent(filename, <<>>, LoadErrorStatus))
          /\ i' = i + 1
          /\ pc' = "check"
          /\ UNCHANGED <<image, exc>>
       \/ /\ \E m \in StepErrors :
                /\ calls' = Append(calls, Call("imread", i, "raise", Raised(m)))
                /\ exc' = m
          /\ pc' = "except"
          /\ UNCHANGED <<i, image, events>>
    /\ UNCHANGED <<job, is_cancelled, filename, processed_image, text, status,
                   cancelledAt, harness>>

\* processed_image = self._apply_preprocessing(image)
ApplyPreprocessing ==
    /\ pc = "pre"
    /\ \/ /\ calls' = Append(calls, CallWith("preprocess", i, "ok", NoOutcome, image))
          /\ processed_image' = _apply_preprocessing(image)
          /\ pc' = "roi"
          /\ exc' = exc
       \/ /\ \E m \in StepErrors :
                /\ calls' = Append(calls, CallWith("preprocess", i, "raise", Raised(m),
                                                  image))
                /\ exc' = m
          /\ pc' = "except"
          /\ processed_image' = processed_image
    /\ UNCHANGED <<job, is_cancelled, i, filename, image, text, status, events,
                   cancelledAt, harness>>

\* ApplyRoi that crops the loaded image instead of the preprocessed one
ApplyRoiOnRaw ==
    /\ pc = "roi"
    /\ IF roi_rect = NoRoi
       THEN /\ pc' = "ocr"
            /\ UNCHANGED <<processed_image, calls>>
       ELSE /\ calls' = Append(calls, CallWith("roi", i, "ok", NoOutcome, image))
            /\ processed_image' = _apply_roi(image)
            /\ pc' = "ocr"
    /\ UNCHANGED <<job, is_cancelled, i, filename, image, text, status, exc, events,
                   cancelledAt, harness>>

\* if self.roi_rect: processed_image = self._apply_roi(processed_image)
ApplyRoi ==
    /\ pc = "roi"
    /\ IF roi_rect = NoRoi
       THEN /\ pc' = "ocr"
            /\ UNCHANGED <<processed_image, exc, calls>>
       ELSE \/ /\ calls' = Append(calls, CallWith("roi", i, "ok", NoOutcome,
                                                  processed_image))
               /\ processed_image' = _apply_roi(processed_image)
               /\ pc' = "ocr"
               /\ exc' = exc
            \/ /\ \E m \in StepErrors :
                     /\ calls' = Append(calls, CallWith("roi", i, "raise", Raised(m),
                                                       processed_image))
                     /\ exc' = m
               /\ pc' = "except"
               /\ processed_image' = processed_image
    /\ UNCHANGED <<job, is_cancelled, i, filename, image, text, status, events,
                   cancelledAt, harness>>

\* text, status = self._run_ocr(processed_image)
RunOcr ==
    /\ pc = "ocr"
    /\ \E out \in EngineOutcomes :
         /\ calls' = Append(calls,
                CallWith("ocr", i, IF out.raised THEN "raise" ELSE "ok", out,
                         processed_image))
         /\ text' = _run_ocr(out)[1]
         /\ status' = _run_ocr(out)[2]
    /\ pc' = "emit"
    /\ UNCHANGED <<job, is_cancelled, i, filename, image, processed_image, exc,
                   events, cancelledAt, harness>>

\* EmitResult that drops the result once the flag is set
EmitResultUnlessCancelled ==
    /\ pc = "emit"
    /\ events' = IF is_cancelled THEN events
                 ELSE Append(events, ResultEvent(filename, text, status))
    /\ pc' = "progress"
    /\ UNCHANGED <<job, is_cancelled, locals, calls, cancelledAt, harness>>

\* self.file_processed.emit(filename, text, status)
EmitResult ==
    /\ pc = "emit"
    /\ events' = Append(events, ResultEvent(filename, text, status))
    /\ pc' = "progress"
    /\ UNCHANGED <<job, is_cancelled, locals, calls, cancelledAt, harness>>

\* ExceptHandler that logs the exception and emits no result
ExceptHandlerSilent ==
    /\ pc = "except"
    /\ pc' = IF filename = Unbound \/ ~IsPathLike(file_path)
             THEN "raised" ELSE "progress"
    /\ UNCHANGED <<job, is_cancelled, locals, events, calls, cancelledAt, harness>>

\* except Exception as e: the handler reads `filename` for the log line
\* and computes os.path.basename(file_path) again for the signal; either
\* raises out of run() when the name could not be computed
ExceptHandler ==
    /\ pc = "except"
    /\ IF filename = Unbound \/ ~IsPathLike(file_path)
       THEN /\ pc' = "raised"
            /\ events' = events
       ELSE /\ events' = Append(events,
                   ResultEvent(os_path_basename(file_path), <<>>, <<"Error: ", exc>>))
            /\ pc' = "progress"
    /\ UNCHANGED <<job, is_cancelled, locals, calls, cancelledAt, harness>>

\* progress = int((i + 1) / total_files * 100); emit it; next iteration
UpdateProgress ==
    /\ pc = "progress"
    /\ events' = Append(events, ProgressEvent(Progress(i, total_files)))
    /\ i' = i + 1
    /\ pc' = "check"
    /\ UNCHANGED <<job, is_cancelled, filename, image, processed_image, text,
                   status, exc, calls, cancelledAt, harness>>

\* EmitFinished that stays silent after a run over no file
EmitFinishedIfAny ==
    /\ pc = "finish"
    /\ events' = IF total_files = 0 THEN events ELSE Append(events, FinishedEvent)
    /\ pc' = "done"
    /\ UNCHANGED <<job, is_cancelled, locals, calls, cancelledAt, harness>>

\* self.finished_processing.emit()
EmitFinished ==
    /\ pc = "finish"
    /\ events' = Append(events, FinishedEvent)
    /\ pc' = "done"
    /\ UNCHANGED <<job, is_cancelled, locals, calls, cancelledAt, harness>>

----------------------------------------------------------------------------
(* The caller: BatchProcessor.cancel() *)

\* cancel() that flips the flag
CancelToggle ==
    /\ is_cancelled' = ~is_cancelled
    /\ cancelledAt' = IF cancelledAt.called THEN cancelledAt
                      ELSE [called |-> TRUE, pc |-> pc, i |-> i,
                            results |-> Len(Results)]
    /\ UNCHANGED <<job, pc, locals, events, calls, harness>>

\* def cancel(self): self.is_cancelled = True
Cancel ==
    /\ is_cancelled' = TRUE
    /\ cancelledAt' = IF cancelledAt.called THEN cancelledAt
                      ELSE [called |-> TRUE, pc |-> pc, i |-> i,
                            results |-> Len(Results)]
    /\ UNCHANGED <<job, pc, locals, events, calls, harness>>

Next ==
    \/ LoopHead
    \/ GetFilename
    \/ LoadImage
    \/ ApplyPreprocessing
    \/ ApplyRoi
    \/ RunOcr
    \/ EmitResult
    \/ ExceptHandler
    \/ UpdateProgress
    \/ EmitFinished
    \/ Cancel

\* the steps of the worker thread
WorkerStep ==
    \/ LoopHead
    \/ GetFilename
    \/ LoadImage
    \/ ApplyPreprocessing
    \/ ApplyRoi
    \/ RunOcr
    \/ EmitResult
    \/ ExceptHandler
    \/ UpdateProgress
    \/ EmitFinished

\* the job is a list of paths
Spec == Init /\ [][Next]_vars

\* the job's list may hold objects that are no paths
SpecAny == InitAny /\ [][Next]_vars

----------------------------------------------------------------------------
(* Properties *)

ProgressValues ==
    LET ps == SelectSeq(events, LAMBDA e : e.type = "progress")
    IN  [k \in 1..Len(ps) |-> ps[k].value]
Finished == SelectSeq(events, LAMBDA e : e.type = "finished")
NeverCancelled == ~cancelledAt.called
CallsOf(op, idx) == {n \in 1..Len(calls) : calls[n].op = op /\ calls[n].item = idx}
ExceptionStatus == <<"Error: ", "cv2.error">>

\* C1: a run that is never cancelled ends with exactly one result event per
\* input file, in input-list order (the k-th result names the k-th file),
\* whatever happened to each file.
C1_OneResultPerFile ==
    (pc = "done" /\ NeverCancelled) =>
        /\ Len(Results) = total_files
        /\ \A k \in 1..total_files :
              Results[k].filename = os_path_basename(file_paths[k])

\* C1 witness: an uncancelled run of two files ended, the first file failed
\* to load and the second raised inside the try block.
C1_Witness ==
    /\ pc = "done" /\ NeverCancelled /\ total_files = 2
    /\ Len(Results) = 2
    /\ Results[1].status = LoadErrorStatus /\ Results[1].filename = "a.png"
    /\ Results[2].status = ExceptionStatus /\ Results[2].filename = "b.png"

\* C2 (as claimed): after an uncancelled run over N >= 1 files the progress
\* values are non-decreasing and the last one is 100.
C2_ProgressEndsAt100 ==
    (pc = "done" /\ NeverCancelled /\ total_files >= 1) =>
        /\ \A k \in 1..(Len(ProgressValues) - 1) :
              ProgressValues[k] <= ProgressValues[k + 1]
        /\ Len(ProgressValues) >= 1
        /\ ProgressValues[Len(ProgressValues)] = 100

\* C3 (as claimed): every handled item is followed by exactly one progress
\* event, so at each loop head the number of progress events equals the
\* number of items handled; and the batch <<blank image, unloadable file>>
\* ends with progress <<50, 100>>.
C3_ProgressAfterEveryItem ==
    /\ pc = "check" => Len(ProgressValues) = i
    /\ (/\ pc = "done" /\ NeverCancelled /\ total_files = 2
        /\ Len(Results) = 2
        /\ Results[1].status = <<"No text detected">>
        /\ Results[2].status = LoadErrorStatus)
       => ProgressValues = <<50, 100>>

\* C4: finished_processing is emitted at most once, nothing is emitted after
\* it, a run that has ended has emitted it exactly once, and a run that has
\* not ended can always take its next step (no exception ends it early).
C4_FinishedOnceAndLast ==
    /\ Len(Finished) <= 1
    /\ Len(Finished) = 1 => (events[Len(events)].type = "finished" /\ pc = "done")
    /\ pc = "done" => Len(Finished) = 1
    /\ pc = "done" \/ ENABLED WorkerStep

\* C4 witness: the run was cancelled before its first item and ended with
\* the finished event alone.
C4_Witness ==
    /\ pc = "done" /\ total_files = 2
    /\ cancelledAt.called /\ cancelledAt.pc = "check" /\ cancelledAt.i = 0
    /\ events = <<FinishedEvent>>


\* the number of items completed when cancel() was first called between
\* two items
CompletedAtCancel == IF cancelledAt.pc = "check" THEN cancelledAt.i ELSE cancelledAt.i + 1
BetweenItems == {"check", "progress"}
InFlight == {"name", "load", "pre", "roi", "ocr", "emit", "except"}

\* C5: when cancel() is first called after k items completed and before the
\* loop-head test for item k+1, the run holds exactly k results from then
\* on, makes no call of any kind for item k+1 or a later one, and ends
\* with the finished event.
C5_CancelBetweenItems ==
    (cancelledAt.called /\ cancelledAt.pc \in BetweenItems) =>
        /\ Len(Results) = CompletedAtCancel
        /\ \A n \in 1..Len(calls) : calls[n].item < CompletedAtCancel
        /\ pc \in {"progress", "check", "finish", "done"}
        /\ pc = "done" => (Len(Finished) = 1 /\ events[Len(events)].type = "finished")

\* C5 witness: cancelled after 1 of 2 items, the run ended with one result.
C5_Witness ==
    /\ pc = "done" /\ total_files = 2
    /\ cancelledAt.called /\ cancelledAt.pc = "check" /\ cancelledAt.i = 1
    /\ Len(Results) = 1
    /\ events[Len(events)].type = "finished"

\* C6: after the flag is set at most one more result is emitted; when it
\* is set while item j is in flight, no call is made for an item after j,
\* and once the worker has left item j exactly one result, that of item j,
\* was emitted after the flag was set.
C6_CooperativeCancel ==
    /\ cancelledAt.called => Len(Results) - cancelledAt.results <= 1
    /\ (cancelledAt.called /\ cancelledAt.pc \in InFlight) =>
          LET j == cancelledAt.i
          IN  /\ \A n \in 1..Len(calls) : calls[n].item <= j
              /\ i \in {j, j + 1}
              /\ (i = j + 1 \/ pc \in {"progress", "finish", "done"}) =>
                    /\ Len(Results) = cancelledAt.results + 1
                    /\ Results[Len(Results)].filename = os_path_basename(file_paths[j + 1])

\* C6 witness: the flag was set while the engine worked on the first of two
\* files; that file's text was still emitted and the run ended.
C6_Witness ==
    /\ pc = "done" /\ total_files = 2
    /\ cancelledAt.called /\ cancelledAt.pc = "ocr" /\ cancelledAt.i = 0
    /\ Len(Results) = 1
    /\ Results[1].status = <<"Success">> /\ Results[1].text = <<"a", "b">>

\* C7 (as claimed): no exception ends run() early, and every exception
\* raised outside the engine call while item k was processed has, once the
\* worker left the try block, produced the result <<name, "", "Error: "
\* + message>> for item k.
C7_ExceptionNeverEscapes ==
    /\ pc # "raised"
    /\ \A n \in 1..Len(calls) :
          LET k == calls[n].item
          IN  (/\ calls[n].ret = "raise" /\ calls[n].op # "ocr"
               /\ (i > k \/ pc \in {"progress", "finish", "done"}))
              => /\ Len(Results) >= k + 1
                 /\ Results[k + 1] = ResultEvent(os_path_basename(file_paths[k + 1]),
                                                 <<>>, <<"Error: ", calls[n].out.msg>>)

\* C8: a file the loader returns no image for has exactly the result
\* <<name, "", load error>>, never reaches preprocessing, ROI extraction or
\* the engine, and the file after it is loaded as usual.
C8_LoadFailureIsolated ==
    \A n \in 1..Len(calls) :
        (calls[n].op = "imread" /\ calls[n].ret = "none") =>
            LET k == calls[n].item
            IN  /\ CallsOf("preprocess", k) = {}
                /\ CallsOf("roi", k) = {}
                /\ CallsOf("ocr", k) = {}
                /\ i > k
                /\ Len(Results) >= k + 1
                /\ Results[k + 1] = ResultEvent(os_path_basename(file_paths[k + 1]),
                                                <<>>, LoadErrorStatus)
                /\ (pc = "done" /\ NeverCancelled /\ k + 1 < total_files)
                      => CallsOf("imread", k + 1) # {}

\* C8 witness: of two files the first could not be loaded and the second
\* was recognized.
C8_Witness ==
    /\ pc = "done" /\ NeverCancelled /\ total_files = 2
    /\ Len(Results) = 2
    /\ Results[1].status = LoadErrorStatus
    /\ Results[2].status = <<"Success">>
    /\ \E n \in 1..Len(calls) :
          calls[n].op = "imread" /\ calls[n].item = 0 /\ calls[n].ret = "none"

\* C9 (as claimed): every emitted result is a load error with empty text,
\* an OCR error carrying the engine's message with empty text, "No text
\* detected" with empty text, or "Success" with a trimmed non-empty text.
C9_FourStatusKinds ==
    \A k \in 1..Len(Results) :
        LET r == Results[k]
        IN  \/ r.status = LoadErrorStatus /\ r.text = <<>>
            \/ /\ \E m \in EngineErrors : r.status = <<"OCR Error: ", m>>
               /\ r.text = <<>>
            \/ r.status = <<"No text detected">> /\ r.text = <<>>
            \/ r.status = <<"Success">> /\ r.text # <<>> /\ strip(r.text) = r.text

\* C10: the flag is false at construction; no step changes a job field
\* other than the flag; the flag never goes back to false; no step of the
\* worker changes the flag; the step that sets it changes nothing of the
\* worker.
C10_OnlyTheFlagChanges ==
    /\ is_cancelled = FALSE
    /\ [][/\ job' = job
          /\ is_cancelled => is_cancelled'
          /\ pc' # pc => is_cancelled' = is_cancelled
          /\ is_cancelled' # is_cancelled => UNCHANGED <<pc, locals, events, calls>>
         ]_vars

\* C10 witness: cancel() was called while a file was being loaded and the
\* run went on to its end with the flag set.
C10_Witness ==
    /\ pc = "done" /\ total_files = 2
    /\ is_cancelled /\ cancelledAt.pc = "load"

\* the calls made for item k, in the order they were made
StepsOf(k) == SelectSeq(calls, LAMBDA c : c.item = k)
\* the steps of an item that loads and fails nowhere
FullSteps ==
    <<"basename", "imread", "preprocess">>
    \o (IF roi_rect = NoRoi THEN <<>> ELSE <<"roi">>) \o <<"ocr">>
Preprocessed_(k) == _apply_preprocessing(Decoded(file_paths[k + 1]))
RegionSelected(k) ==
    IF roi_rect = NoRoi THEN Preprocessed_(k) ELSE _apply_roi(Preprocessed_(k))

Returned(op, k) == \E n \in CallsOf(op, k) : calls[n].ret = "ok"
\* the items whose loop iteration is over
ItemsOver == {k \in 0..(total_files - 1) : k < i}
\* the engine's failure shows in the item's result
OcrFailureSurfaces(k) ==
    \A n \in CallsOf("ocr", k) :
        calls[n].ret = "raise" =>
            /\ Len(Results) > k
            /\ Results[k + 1].status = <<"OCR Error: ", calls[n].out.msg>>
            /\ Results[k + 1].text = <<>>

\* C26 as stated: at most one engine call per file, exactly one for every
\* file that loaded, and an engine failure is the item's OCR Error result.
C26_OncePerLoadedFile ==
    \A k \in 0..(total_files - 1) :
        /\ Cardinality(CallsOf("ocr", k)) <= 1
        /\ k \in ItemsOver =>
              /\ Returned("imread", k) => Cardinality(CallsOf("ocr", k)) = 1
              /\ OcrFailureSurfaces(k)

\* What the code does guarantee: at most one engine call per file; an item
\* that is over had its one call exactly when the file loaded and neither
\* preprocessing nor the ROI step raised; a call that raised is the item's
\* result "OCR Error: <message>" with empty text.
EngineCalledOnceWhenReached ==
    \A k \in 0..(total_files - 1) :
        /\ Cardinality(CallsOf("ocr", k)) <= 1
        /\ k \in ItemsOver =>
              /\ Cardinality(CallsOf("ocr", k)) = 1
                    <=> /\ Returned("imread", k)
                        /\ Returned("preprocess", k)
                        /\ roi_rect # NoRoi => Returned("roi", k)
              /\ OcrFailureSurfaces(k)

\* C30: run() on an empty file list makes no call, divides by nothing,
\* emits neither a result nor a progress value, can always take its next
\* step until it has ended, and ends having emitted the finished event
\* exactly once.
C30_EmptyListJustFinishes ==
    total_files = 0 =>
        /\ pc \in {"check", "finish", "done"}
        /\ calls = <<>>
        /\ Results = <<>> /\ ProgressValues = <<>>
        /\ pc = "done" => events = <<FinishedEvent>>
        /\ pc # "done" => (events = <<>> /\ ENABLED WorkerStep)

\* C30 witness: the run over the empty list has ended.
C30_Witness ==
    /\ total_files = 0 /\ pc = "done"
    /\ events = <<FinishedEvent>>
    /\ ~is_cancelled

----------------------------------------------------------------------------
(* The batch tab: BatchProcessingTab                                       *)
(* (src/src/ocr_scanner/gui/batch_processing_tab.py).                      *)
(*                                                                         *)
(* The tab lives in the GUI thread and the worker emits from its own       *)
(* thread, so every signal is queued and its slot runs when the GUI        *)
(* thread's event loop delivers it, in emission order.  While the GUI      *)
(* thread is blocked in wait() nothing is delivered.  The signals of the   *)
(* current worker that are not yet delivered are events[delivered+1..];    *)
(* those of earlier workers are kept in `stale`.                           *)

\* the longest file list loaded into the tab, and the most signals of
\* earlier workers that may still be queued when a batch is started
MaxTabFiles == 2
MaxStale == 1

\* the tab once a list of n files was loaded (load_batch_images)
TabLoaded(n) ==
    [present |-> TRUE,
     batch_results |-> <<>>,
     progress |-> 0,
     process_enabled |-> n > 0,
     cancel_enabled |-> FALSE,
     load_enabled |-> TRUE,
     clear_enabled |-> TRUE,
     export_enabled |-> FALSE,
     waiting |-> FALSE,      \* the GUI thread is inside batch_processor.wait()
     stale |-> <<>>,         \* queued signals of earlier workers
     delivered |-> 0,        \* how many signals of this worker were delivered
     reports |-> <<>>,       \* the completion messages shown since the start
     handled |-> 0,          \* history: runs of the handler since the start
     overlap |-> FALSE]      \* history: a worker was started while one ran

InitGui ==
    /\ \E n \in 0..MaxTabFiles :
          /\ file_paths = [k \in 1..n |-> PathOf(k)]
          /\ tab = TabLoaded(n)
    /\ preprocessing_method \in Methods
    /\ threshold_value = 127
    /\ roi_rect = NoRoi
    /\ language = "eng"
    /\ is_cancelled = FALSE
    /\ pc = "idle"
    /\ i = 0
    /\ filename = Unbound
    /\ image = NoImage
    /\ processed_image = NoImage
    /\ text = <<>>
    /\ status = <<>>
    /\ exc = ""
    /\ events = <<>>
    /\ calls = <<>>
    /\ cancelledAt = NotCancelled
    /\ probe = NoProbe

\* def update_batch_progress(self, value)
update_batch_progress(t, value) == [t EXCEPT !.progress = value]

\* def add_batch_result(self, filename, text, status)
add_batch_result(t, f, txt, st) ==
    [t EXCEPT !.batch_results =
        Append(@, [filename |-> f, text |-> txt, status |-> st, timestamp |-> "now"])]

Successful(results) ==
    Cardinality({k \in 1..Len(results) : results[k].status = <<"Success">>})

\* batch_processing_finished that shows the message for an empty list too
batch_processing_finished_always(t) ==
    [t EXCEPT !.process_enabled = TRUE,
              !.cancel_enabled = FALSE,
              !.load_enabled = TRUE,
              !.clear_enabled = TRUE,
              !.export_enabled = IF t.batch_results # <<>> THEN TRUE ELSE @,
              !.reports = Append(@, [successful |-> Successful(t.batch_results),
                                     total |-> Len(t.batch_results)]),
              !.handled = @ + 1]

\* def batch_processing_finished(self)
batch_processing_finished(t) ==
    [t EXCEPT !.process_enabled = TRUE,
              !.cancel_enabled = FALSE,
              !.load_enabled = TRUE,
              !.clear_enabled = TRUE,
              !.export_enabled = IF t.batch_results # <<>> THEN TRUE ELSE @,
              !.reports = IF t.batch_results # <<>>
                          THEN Append(@, [successful |-> Successful(t.batch_results),
                                          total |-> Len(t.batch_results)])
                          ELSE @,
              !.handled = @ + 1]

\* the slot a queued signal is connected to
Dispatch(t, e) ==
    IF e.type = "result" THEN add_batch_result(t, e.filename, e.text, e.status)
    ELSE IF e.type = "progress" THEN update_batch_progress(t, e.value)
    ELSE batch_processing_finished(t)

WorkerRunning == pc \notin {"idle", "done", "raised"}

\* def start_batch_processing(self): the click on "Process".  When the
\* previous worker is still running (its stale finished signal re-enabled
\* the button) two workers run at once; the model records that in
\* tab.overlap and follows the behaviour no further.
StartBatch ==
    /\ tab.process_enabled /\ ~tab.waiting /\ ~tab.overlap
    /\ Len(tab.stale) + Len(events) - tab.delivered <= MaxStale
    /\ file_paths # <<>>
    /\ IF WorkerRunning
       THEN /\ tab' = [tab EXCEPT !.overlap = TRUE]
            /\ UNCHANGED <<job, is_cancelled, pc, locals, events, calls,
                           cancelledAt, probe>>
       ELSE /\ tab' = [tab EXCEPT !.batch_results = <<>>,
                                  !.progress = 0,
                                  !.process_enabled = FALSE,
                                  !.cancel_enabled = TRUE,
                                  !.load_enabled = FALSE,
                                  !.clear_enabled = FALSE,
                                  !.stale = @ \o SubSeq(events, tab.delivered + 1,
                                                        Len(events)),
                                  !.delivered = 0,
                                  !.reports = <<>>,
                                  !.handled = 0]
            /\ is_cancelled' = FALSE
            /\ pc' = "check"
            /\ i' = 0
            /\ filename' = Unbound
            /\ image' = NoImage
            /\ processed_image' = NoImage
            /\ text' = <<>>
            /\ status' = <<>>
            /\ exc' = ""
            /\ events' = <<>>
            /\ calls' = <<>>
            /\ cancelledAt' = NotCancelled
            /\ UNCHANGED <<job, probe>>

\* def cancel_batch_processing(self), up to the call of wait(): the click
\* on "Cancel"
CancelClicked ==
    /\ tab.cancel_enabled /\ ~tab.waiting /\ ~tab.overlap
    /\ is_cancelled' = TRUE
    /\ cancelledAt' = IF cancelledAt.called THEN cancelledAt
                      ELSE [called |-> TRUE, pc |-> pc, i |-> i,
                            results |-> Len(Results)]
    /\ tab' = [tab EXCEPT !.waiting = TRUE]
    /\ UNCHANGED <<job, pc, locals, events, calls, probe>>

\* cancel_batch_processing from the return of wait(): the worker thread has
\* exited and the handler is called directly
WaitReturns ==
    /\ tab.waiting
    /\ pc \in {"done", "raised"}
    /\ tab' = batch_processing_finished([tab EXCEPT !.waiting = FALSE])
    /\ UNCHANGED <<job, is_cancelled, pc, locals, events, calls, cancelledAt, probe>>

\* the event loop of the GUI thread delivers the oldest queued signal
Deliver ==
    /\ ~tab.waiting /\ ~tab.overlap
    /\ \/ /\ tab.stale # <<>>
          /\ tab' = Dispatch([tab EXCEPT !.stale = Tail(@)], Head(tab.stale))
       \/ /\ tab.stale = <<>>
          /\ tab.delivered < Len(events)
          /\ tab' = Dispatch([tab EXCEPT !.delivered = @ + 1], events[tab.delivered + 1])
    /\ UNCHANGED <<job, is_cancelled, pc, locals, events, calls, cancelledAt, probe>>

\* a step of the tab's worker thread
TabWorkerStep ==
    /\ ~tab.overlap
    /\ \/ LoopHead
       \/ GetFilename
       \/ LoadImage
       \/ ApplyPreprocessing
       \/ ApplyRoi
       \/ RunOcr
       \/ EmitResult
       \/ ExceptHandler
       \/ UpdateProgress
       \/ EmitFinished

NextGui ==
    \/ TabWorkerStep
    \/ StartBatch
    \/ CancelClicked
    \/ WaitReturns
    \/ Deliver

\* the worker driven by the batch tab
SpecGui == InitGui /\ [][NextGui]_vars

\* C11 (as claimed): every run of the completion handler reports the count
\* of successful results and the total count.
C11_EveryCompletionReports == Len(tab.reports) = tab.handled

\* C11 (amended): a run of the completion handler with a non-empty result
\* list shows one message with the number of "Success" results and the
\* number of results of the list, however many of them failed; a run with
\* an empty list shows none.
C11_ReportsWhenResults ==
    [][tab'.handled = tab.handled + 1 =>
          IF tab.batch_results # <<>>
          THEN tab'.reports =
                  Append(tab.reports,
                         [successful |-> Successful(tab.batch_results),
                          total |-> Len(tab.batch_results)])
          ELSE tab'.reports = tab.reports]_vars

\* C11 witness: the batch was cancelled while its first file was in
\* flight; the handler ran once on the empty list and once more when the
\* worker's own finished signal arrived, then with the failed file's
\* result: one message, 0 of 1.
C11_Witness ==
    /\ tab.handled = 2
    /\ tab.reports = <<[successful |-> 0, total |-> 1]>>
    /\ Len(tab.batch_results) = 1
    /\ tab.batch_results[1].status = LoadErrorStatus

\* every signal of this and of earlier workers has been delivered
QueueEmpty == tab.stale = <<>> /\ tab.delivered = Len(events)

\* C27: for each started batch the completion handler runs exactly once:
\* never a second time, and once when the worker is gone and nothing is
\* queued any more.
C27_HandlerRunsOncePerBatch ==
    /\ tab.handled <= 1
    /\ (pc = "done" /\ ~tab.waiting /\ QueueEmpty) => tab.handled = 1

\* entry k of the tab's list is what result signal k of this worker carried
SameResults(list, signals) ==
    /\ Len(list) = Len(signals)
    /\ \A k \in 1..Len(list) :
          /\ list[k].filename = signals[k].filename
          /\ list[k].text = signals[k].text
          /\ list[k].status = signals[k].status

\* C28: whenever the completion handler runs, batch_results holds the
\* results this batch's worker has emitted, one entry each, in emission
\* order, and nothing else.
C28_HandlerSeesEveryResult ==
    [][tab'.handled = tab.handled + 1 => SameResults(tab.batch_results, Results)]_vars

\* C29: no worker is started while an earlier one is still executing run().
C29_OneWorkerAtATime == ~tab.overlap

----------------------------------------------------------------------------
(* Images pixel by pixel: ImageProcessor                                   *)
(* (src/src/ocr_scanner/core/image_processor.py) and the preprocessing and *)
(* ROI steps of BatchProcessor.                                            *)
(*                                                                         *)
(* An image is [ch, rows, ops]: ch = 3 for an (h, w, 3) BGR array and 1    *)
(* for a 2-D (h, w) array; rows[y][x] is the pixel, a tuple of ch values;  *)
(* ops lists the library filters applied to these pixels whose arithmetic  *)
(* is not modelled (the result is a function of the filter and the pixels, *)
(* so two such images are equal when rows and ops are).                    *)

\* the largest number of pixels of an image of the pool
MaxPixels == 4

Colours == {<<0, 0, 0>>, <<255, 255, 255>>, <<10, 200, 90>>}
Grays == {<<0>>, <<128>>}
Thresholds == {0, 127, 255}

\* PREPROCESSING_OPTIONS, and one name the application does not offer
PREPROCESSING_OPTIONS ==
    {"None", "Grayscale", "Threshold", "Adaptive Threshold", "Denoise",
     "Auto Rotate", "Deskew", "Perspective Correction"}
AllMethods == PREPROCESSING_OPTIONS \cup {"Sharpen"}

Shapes == {hw \in (1..MaxPixels) \X (1..MaxPixels) : hw[1] * hw[2] <= MaxPixels}

ImagesOf(pixels, c) ==
    UNION {[ch : {c}, rows : [1..hw[1] -> [1..hw[2] -> pixels]], ops : {<<>>}] :
              hw \in Shapes}

ColourImages == ImagesOf(Colours, 3)
GrayImages == ImagesOf(Grays, 1)
Images == ColourImages \cup GrayImages

Height(img) == Len(img.rows)
Width(img) == Len(img.rows[1])
\* img.shape
Shape(img) ==
    IF img.ch = 3 THEN <<Height(img), Width(img), 3>> ELSE <<Height(img), Width(img)>>

\* what a step returns: an image, or the exception it raised
NoPixels == [ch |-> 0, rows |-> <<>>, ops |-> <<>>]
Returns(img) == [raised |-> FALSE, img |-> img, msg |-> ""]
Raises(m) == [raised |-> TRUE, img |-> NoPixels, msg |-> m]
Pending == [raised |-> FALSE, img |-> NoPixels, msg |-> "pending"]

\* cv2.cvtColor(img, cv2.COLOR_BGR2GRAY): 8-bit fixed point luma of a
\* 3-channel image; any other channel count is rejected
Luma(px) == <<(px[1] * 3735 + px[2] * 19235 + px[3] * 9798 + 16384) \div 32768>>

cvtColor_BGR2GRAY(img) ==
    IF img.ch = 3
    THEN Returns([ch |-> 1, rows |-> [y \in 1..Height(img) |->
                              [x \in 1..Width(img) |-> Luma(img.rows[y][x])]], ops |-> img.ops])
    ELSE Raises("cv2.error")

\* cv2.threshold with a cut that also lets equal values through
BinaryInclusive(gray, thresh) ==
    [gray EXCEPT !.rows =
        [y \in 1..Height(gray) |-> [x \in 1..Width(gray) |->
            IF gray.rows[y][x][1] >= thresh THEN <<255>> ELSE <<0>>]]]

\* cv2.threshold(gray, thresh, 255, cv2.THRESH_BINARY)
cv2_threshold(gray, thresh) ==
    [gray EXCEPT !.rows =
        [y \in 1..Height(gray) |-> [x \in 1..Width(gray) |->
            IF gray.rows[y][x][1] > thresh THEN <<255>> ELSE <<0>>]]]

\* cv2.adaptiveThreshold(gray, 255, GAUSSIAN_C, THRESH_BINARY, 11, 2)
cv2_adaptiveThreshold(gray) ==
    [gray EXCEPT !.ops = Append(@, "adaptiveThreshold(11,2)")]

\* cv2.fastNlMeansDenoisingColored(img, None, 10, 10, 7, 21): 3-channel
\* input only
cv2_fastNlMeansDenoisingColored(img) ==
    IF img.ch = 3
    THEN Returns([img EXCEPT !.ops = Append(@, "fastNlMeansDenoisingColored")])
    ELSE Raises("cv2.error")

Clamp(v, lo, hi) == Max(lo, Min(hi, v))

\* cv2.warpAffine(img, cv2.getRotationMatrix2D((w // 2, h // 2), angle, 1.0),
\* (w, h), INTER_CUBIC, BORDER_REPLICATE) for the quarter turns the
\* orientation detector reports: the output keeps the size, pixel (x, y)
\* takes the source pixel the inverse rotation about the centre maps it
\* to, coordinates outside the image are clamped to the border.
Rotated(img, angle) ==
    LET h == Height(img)
        w == Width(img)
        cx == w \div 2
        cy == h \div 2
        \* 0-based source coordinates of the 0-based output pixel (x, y)
        SrcX(x, y) == IF angle = 90 THEN cx + cy - y
                      ELSE IF angle = 180 THEN 2 * cx - x
                      ELSE IF angle = 270 THEN y + cx - cy
                      ELSE x
        SrcY(x, y) == IF angle = 90 THEN x - cx + cy
                      ELSE IF angle = 180 THEN 2 * cy - y
                      ELSE IF angle = 270 THEN cx + cy - x
                      ELSE y
    IN  [img EXCEPT !.rows =
            [y \in 1..h |-> [x \in 1..w |->
                img.rows[Clamp(SrcY(x - 1, y - 1), 0, h - 1) + 1]
                        [Clamp(SrcX(x - 1, y - 1), 0, w - 1) + 1]]]]

\* what pytesseract.image_to_osd may do: raise, or report a rotation
OsdOutcomes ==
    {[ok |-> FALSE, rotate |-> 0]} \cup
    {[ok |-> TRUE, rotate |-> a] : a \in {0, 90, 180, 270}}
NoOsd == [ok |-> TRUE, rotate |-> 0]

\* what the contour search of _correct_perspective may do: find no
\* quadrilateral among the five largest contours, find one, or raise
QuadOutcomes == {"none", "quad", "raise"}

\* def _auto_rotate(img): the gray copy is only handed to the detector; a
\* failure of any step is caught and the input returned
_auto_rotate(img, osd) ==
    IF ~osd.ok THEN img
    ELSE IF osd.rotate # 0 THEN Rotated(img, osd.rotate)
    ELSE img

\* def _deskew_image(img): cv2.HoughLines returns None or an array of
\* shape (N, 1, 2); `for rho, theta in lines[:10]` then unpacks a (1, 2)
\* row into two names and raises ValueError, which the handler turns into
\* the input image.  With or without lines the input is returned.
_deskew_image(img, lines) == img

\* def _correct_perspective(img)
_correct_perspective(img, quad) ==
    IF quad = "quad"
    THEN [img EXCEPT !.ops = Append(@, "warpPerspective")]
    ELSE img

\* Threshold branch, shared by both processors
ThresholdBranch(img, t) ==
    LET g == cvtColor_BGR2GRAY(img)
    IN  IF g.raised THEN g ELSE Returns(cv2_threshold(g.img, t))

AdaptiveBranch(img) ==
    LET g == cvtColor_BGR2GRAY(img)
    IN  IF g.raised THEN g ELSE Returns(cv2_adaptiveThreshold(g.img))

\* apply_preprocessing whose final else converts to gray
apply_preprocessing_else_gray(img, method, t, osd, lines, quad) ==
    IF method = "None" THEN Returns(img) ELSE cvtColor_BGR2GRAY(img)

\* ImageProcessor.apply_preprocessing(img, method, threshold_value)
apply_preprocessing(img, method, t, osd, lines, quad) ==
    IF method = "Grayscale" THEN cvtColor_BGR2GRAY(img)
    ELSE IF method = "Threshold" THEN ThresholdBranch(img, t)
    ELSE IF method = "Adaptive Threshold" THEN AdaptiveBranch(img)
    ELSE IF method = "Denoise" THEN cv2_fastNlMeansDenoisingColored(img)
    ELSE IF method = "Auto Rotate" THEN Returns(_auto_rotate(img, osd))
    ELSE IF method = "Deskew" THEN Returns(_deskew_image(img, lines))
    ELSE IF method = "Perspective Correction"
         THEN Returns(_correct_perspective(img, quad))
    ELSE Returns(img)

\* BatchProcessor._apply_preprocessing(img) with the job's method and
\* threshold, pixel by pixel
BatchProcessor_apply_preprocessing(img, method, t) ==
    IF method = "Grayscale" THEN cvtColor_BGR2GRAY(img)
    ELSE IF method = "Threshold" THEN ThresholdBranch(img, t)
    ELSE IF method = "Adaptive Threshold" THEN AdaptiveBranch(img)
    ELSE IF method = "Denoise" THEN cv2_fastNlMeansDenoisingColored(img)
    ELSE Returns(img)

\* no worker and no tab: the state around a call of a pure function
NoWorker ==
    /\ file_paths = <<>>
    /\ preprocessing_method = "None"
    /\ threshold_value = 127
    /\ roi_rect = NoRoi
    /\ language = "eng"
    /\ is_cancelled = FALSE
    /\ pc = "idle"
    /\ i = 0
    /\ filename = Unbound
    /\ image = NoImage
    /\ processed_image = NoImage
    /\ text = <<>>
    /\ status = <<>>
    /\ exc = ""
    /\ events = <<>>
    /\ calls = <<>>
    /\ cancelledAt = NotCancelled
    /\ tab = NoTab

InitPre ==
    /\ NoWorker
    /\ \E img \in Images :
          probe = [fn |-> "input", img |-> img, method |-> "None", t |-> 127,
                   osd |-> NoOsd, lines |-> FALSE, quad |-> "none",
                   single |-> Pending, batch |-> Pending]

\* one call of each processor's preprocessing on the same image, method
\* and threshold; the collaborators' outcomes are drawn only where the
\* method consults them
Preprocess ==
    /\ probe.fn = "input"
    /\ \E method \in AllMethods, t \in Thresholds,
          osd \in OsdOutcomes, lines \in BOOLEAN, quad \in QuadOutcomes :
          /\ method # "Threshold" => t = 127
          /\ method # "Auto Rotate" => osd = NoOsd
          /\ method # "Deskew" => lines = FALSE
          /\ method # "Perspective Correction" => quad = "none"
          /\ probe' = [probe EXCEPT
                          !.fn = "apply_preprocessing",
                          !.method = method, !.t = t,
                          !.osd = osd, !.lines = lines, !.quad = quad,
                          !.single = apply_preprocessing(probe.img, method, t,
                                                         osd, lines, quad),
                          !.batch = BatchProcessor_apply_preprocessing(
                                        probe.img, method, t)]
    /\ UNCHANGED <<job, is_cancelled, pc, locals, events, calls, cancelledAt, tab>>

NextPre == Preprocess

\* both preprocessing functions applied to every image of the pool
SpecPre == InitPre /\ [][NextPre]_vars

Preprocessed == probe.fn = "apply_preprocessing"

\* C12: for every offered method, every threshold and every colour image
\* the batch preprocessing returns the same image as the single-image
\* preprocessing.
C12_SamePreprocessing ==
    (Preprocessed /\ probe.img.ch = 3 /\ probe.method \in PREPROCESSING_OPTIONS)
        => probe.batch = probe.single

\* C13: ImageProcessor.apply_preprocessing never raises, for colour and
\* for 2-D gray images.
C13_NeverRaises == Preprocessed => ~probe.single.raised

\* C14: with method "None" or a name that is not a known method, both
\* preprocessing functions return the input, same shape and same pixels,
\* whatever the threshold value.
C14_NoneAndUnknownAreIdentity ==
    (Preprocessed /\ probe.method \notin (PREPROCESSING_OPTIONS \ {"None"}))
        => /\ probe.single = Returns(probe.img)
           /\ probe.batch = Returns(probe.img)
           /\ Shape(probe.single.img) = Shape(probe.img)

\* C14 witness: an unknown method name applied to a colour image whose
\* pixels are not all alike.
C14_Witness ==
    /\ Preprocessed
    /\ probe.method = "Sharpen"
    /\ Shape(probe.img) = <<2, 2, 3>>
    /\ probe.img.rows[1][1] # probe.img.rows[2][2]
    /\ probe.single.img = probe.img

\* C15: Threshold on a colour image of height h and width w returns a
\* single-channel image of shape (h, w) whose pixel is 255 where the gray
\* value exceeds the cut and 0 elsewhere.
C15_ThresholdIsBinary ==
    (Preprocessed /\ probe.img.ch = 3 /\ probe.method = "Threshold")
        => /\ ~probe.single.raised
           /\ Shape(probe.single.img) = <<Height(probe.img), Width(probe.img)>>
           /\ \A y \in 1..Height(probe.img), x \in 1..Width(probe.img) :
                 /\ probe.single.img.rows[y][x] \in {<<0>>, <<255>>}
                 /\ probe.single.img.rows[y][x] = <<255>>
                       <=> Luma(probe.img.rows[y][x])[1] > probe.t

\* C15 witness: the cut 0 applied to an image with a black pixel, whose
\* gray value equals the cut (0 in the output), and a pixel of gray value
\* 145 (255 in the output).
C15_Witness ==
    /\ Preprocessed /\ probe.method = "Threshold" /\ probe.img.ch = 3
    /\ probe.t = 0
    /\ Shape(probe.img) = <<1, 2, 3>>
    /\ probe.img.rows[1][1] = <<0, 0, 0>>
    /\ probe.img.rows[1][2] = <<10, 200, 90>>
    /\ probe.single.img.rows = <<(<<(<<0>>), (<<255>>)>>)>>

----------------------------------------------------------------------------
(* Region of interest: ImageProcessor.apply_roi and                        *)
(* BatchProcessor._apply_roi, pixel by pixel                               *)

\* an image of the given shape whose pixels all differ: the pixel of
\* 0-based column x and row y carries x and y
Tagged(hw, c) ==
    [ch |-> c,
     rows |-> [y \in 1..hw[1] |-> [x \in 1..hw[2] |->
                  IF c = 3 THEN <<x - 1, y - 1, 128>> ELSE <<16 * (y - 1) + x - 1>>]],
     ops |-> <<>>]

RoiImages == {Tagged(hw, c) : hw \in Shapes, c \in {1, 3}}

\* ROI coordinates: from left of / above the image to beyond the largest
Coords == (-1)..(MaxPixels + 1)
RoiRects == Coords \X Coords \X Coords \X Coords

\* img[y1:y2, x1:x2] for 0 <= x1 < x2 <= w and 0 <= y1 < y2 <= h
Slice(img, x1, y1, x2, y2) ==
    [img EXCEPT !.rows =
        [y \in 1..(y2 - y1) |-> [x \in 1..(x2 - x1) |-> img.rows[y1 + y][x1 + x]]]]

\* apply_roi that crops a rectangle of the ROI's size at the origin
apply_roi_at_origin(img, roi) ==
    LET x1 == Max(0, roi[1])
        y1 == Max(0, roi[2])
        x2 == Min(Width(img), roi[3])
        y2 == Min(Height(img), roi[4])
    IN  IF x2 > x1 /\ y2 > y1
        THEN Returns(Slice(img, 0, 0, x2 - x1, y2 - y1))
        ELSE Returns(img)

\* apply_roi that slices without looking at the clamped rectangle
apply_roi_unchecked(img, roi) ==
    LET x1 == Max(0, roi[1])
        y1 == Max(0, roi[2])
        x2 == Min(Width(img), roi[3])
        y2 == Min(Height(img), roi[4])
    IN  IF x2 > x1 /\ y2 > y1
        THEN Returns(Slice(img, x1, y1, x2, y2))
        ELSE Returns([img EXCEPT !.rows = <<>>])

\* apply_roi that takes a ROI reaching outside the image for invalid
apply_roi_reject_outside(img, roi) ==
    IF /\ 0 <= roi[1] /\ roi[1] < roi[3] /\ roi[3] <= Width(img)
       /\ 0 <= roi[2] /\ roi[2] < roi[4] /\ roi[4] <= Height(img)
    THEN Returns(Slice(img, roi[1], roi[2], roi[3], roi[4]))
    ELSE Returns(img)

\* ImageProcessor.apply_roi(img, roi_rect)
apply_roi(img, roi) ==
    LET x1 == Max(0, roi[1])
        y1 == Max(0, roi[2])
        x2 == Min(Width(img), roi[3])
        y2 == Min(Height(img), roi[4])
    IN  IF x2 > x1 /\ y2 > y1
        THEN Returns(Slice(img, x1, y1, x2, y2))
        ELSE Returns(img)

\* BatchProcessor._apply_roi(img) with the job's roi_rect
BatchProcessor_apply_roi(img, roi) ==
    IF roi = NoRoi THEN Returns(img)
    ELSE LET x1 == Max(0, roi[1])
             y1 == Max(0, roi[2])
             x2 == Min(Width(img), roi[3])
             y2 == Min(Height(img), roi[4])
         IN  IF x2 > x1 /\ y2 > y1
             THEN Returns(Slice(img, x1, y1, x2, y2))
             ELSE Returns(img)

InitRoi ==
    /\ NoWorker
    /\ \E img \in RoiImages :
          probe = [fn |-> "input", img |-> img, roi |-> <<0, 0, 0, 0>>,
                   single |-> Pending, batch |-> Pending]

\* one call of each processor's crop on the same image and ROI
Crop ==
    /\ probe.fn = "input"
    /\ \E roi \in RoiRects :
          probe' = [probe EXCEPT !.fn = "apply_roi",
                                 !.roi = roi,
                                 !.single = apply_roi(probe.img, roi),
                                 !.batch = BatchProcessor_apply_roi(probe.img, roi)]
    /\ UNCHANGED <<job, is_cancelled, pc, locals, events, calls, cancelledAt, tab>>

NextRoi == Crop

\* both crops applied to every image and ROI of the pool
SpecRoi == InitRoi /\ [][NextRoi]_vars

Cropped == probe.fn = "apply_roi"

\* the ROI lies fully inside the image and has positive width and height
RoiInside ==
    /\ 0 <= probe.roi[1] /\ probe.roi[1] < probe.roi[3]
    /\ probe.roi[3] <= Width(probe.img)
    /\ 0 <= probe.roi[2] /\ probe.roi[2] < probe.roi[4]
    /\ probe.roi[4] <= Height(probe.img)

\* the ROI clamped the way the spec describes: every coordinate into
\* [0, w] or [0, h]
ClampedRoi ==
    <<Clamp(probe.roi[1], 0, Width(probe.img)),
      Clamp(probe.roi[2], 0, Height(probe.img)),
      Clamp(probe.roi[3], 0, Width(probe.img)),
      Clamp(probe.roi[4], 0, Height(probe.img))>>

RoiDegenerate == ClampedRoi[3] <= ClampedRoi[1] \/ ClampedRoi[4] <= ClampedRoi[2]

\* out is img restricted to columns x1..x2-1 and rows y1..y2-1
IsRestriction(out, img, x1, y1, x2, y2) ==
    /\ out.ch = img.ch
    /\ Height(out) = y2 - y1
    /\ Width(out) = x2 - x1
    /\ \A y \in 0..(y2 - y1 - 1), x \in 0..(x2 - x1 - 1) :
          out.rows[y + 1][x + 1] = img.rows[y1 + y + 1][x1 + x + 1]

\* C16: for a ROI fully inside the bounds the crop is exactly rows
\* y1..y2-1 and columns x1..x2-1: height y2-y1, width x2-x1, same
\* channel count.
C16_CropInsideBounds ==
    (Cropped /\ RoiInside)
        => /\ ~probe.single.raised /\ ~probe.batch.raised
           /\ IsRestriction(probe.single.img, probe.img,
                            probe.roi[1], probe.roi[2], probe.roi[3], probe.roi[4])
           /\ probe.batch = probe.single
           /\ Shape(probe.single.img) =
                 IF probe.img.ch = 3
                 THEN <<probe.roi[4] - probe.roi[2], probe.roi[3] - probe.roi[1], 3>>
                 ELSE <<probe.roi[4] - probe.roi[2], probe.roi[3] - probe.roi[1]>>

\* C16 witness: an inner ROI that starts off the origin and is smaller
\* than the colour image.
C16_Witness ==
    /\ Cropped
    /\ Shape(probe.img) = <<2, 2, 3>>
    /\ probe.roi = <<1, 1, 2, 2>>
    /\ probe.single.img.rows = <<(<<(<<1, 1, 128>>)>>)>>

\* C17: a ROI that is degenerate after clamping raises nothing and gives
\* back the unmodified input.
C17_DegenerateRoiIsFullImage ==
    (Cropped /\ RoiDegenerate)
        => /\ probe.single = Returns(probe.img)
           /\ probe.batch = Returns(probe.img)

\* C17 witness: x2 < x1 on one image, and the result is the whole image.
C17_Witness ==
    /\ Cropped
    /\ Shape(probe.img) = <<2, 2>>
    /\ probe.roi = <<2, 0, 1, 2>>
    /\ probe.single.img = probe.img

\* C18: whenever the ROI meets the image in a rectangle of positive width
\* and height the crop is the image restricted to that intersection; a
\* ROI exceeding the image on all four sides gives the full image.
C18_CropIsIntersection ==
    (Cropped /\ ~RoiDegenerate)
        => /\ ~probe.single.raised
           /\ IsRestriction(probe.single.img, probe.img,
                            ClampedRoi[1], ClampedRoi[2], ClampedRoi[3], ClampedRoi[4])
           /\ probe.batch = probe.single
           /\ (/\ probe.roi[1] < 0 /\ probe.roi[2] < 0
               /\ probe.roi[3] > Width(probe.img)
               /\ probe.roi[4] > Height(probe.img))
                 => probe.single.img = probe.img

\* C18 witness: a ROI that leaves the image on the left and at the bottom
\* and keeps only part of it.
C18_Witness ==
    /\ Cropped
    /\ Shape(probe.img) = <<2, 2, 3>>
    /\ probe.roi = <<-1, 1, 1, 5>>
    /\ probe.single.img.rows = <<(<<(<<0, 1, 128>>)>>)>>

----------------------------------------------------------------------------
(* Export: ResultExporter (src/src/ocr_scanner/utils/export.py)            *)
(*                                                                         *)
(* A string is a sequence of characters.  A run of characters that no rule *)
(* of the writers and readers singles out (letters, digits, blanks, dots,  *)
(* colons) is written as one element, e.g. "Extracted Text"; the comma,    *)
(* the double quote, the backslash, the line feed "\n", the carriage       *)
(* return "\r" and the tab "\t" are always elements of their own.  A file  *)
(* is the sequence of the characters written to it.                        *)

\* the longest result list exported
MaxResults == 2

ExportFileNames == {<<"a.png">>, <<"a", "\r", "b.png">>}
ExportStatuses == {<<"Success">>, <<"Error: ", "\"", "a", "\"", ",", "\n", "b">>}
ExportTexts ==
    {<<>>, <<"a", "\n", "b", "\r", "\n">>, <<"\\", "n", "\"", "\t">>, <<",", "\"", "\"">>}
ExportTimestamps == {<<"2024-01-01 10:00:00">>}

\* the dictionaries add_batch_result appends to batch_results
ExportResults ==
    [filename : ExportFileNames, text : ExportTexts, status : ExportStatuses,
     timestamp : ExportTimestamps]

ResultLists == UNION {[1..n -> ExportResults] : n \in 0..MaxResults}

RECURSIVE Concat(_)
\* ''.join(parts)
Concat(parts) == IF parts = <<>> THEN <<>> ELSE Head(parts) \o Concat(Tail(parts))

RECURSIVE Join(_, _)
\* sep.join(parts)
Join(parts, sep) ==
    IF parts = <<>> THEN <<>>
    ELSE IF Len(parts) = 1 THEN parts[1]
    ELSE parts[1] \o sep \o Join(Tail(parts), sep)

\* text.replace('\n', ' ').replace('\r', ' ')
ReplaceLineBreaks(str) ==
    [k \in 1..Len(str) |-> IF str[k] \in {"\n", "\r"} THEN " " ELSE str[k]]

\* csv.writer, dialect excel: QUOTE_MINIMAL quotes a field that holds the
\* delimiter, the quote character or a character of the line terminator
NeedsQuotes(field) == \E k \in 1..Len(field) : field[k] \in {",", "\"", "\r", "\n"}

\* doublequote: a quote inside a quoted field is written twice
DoubleQuotes(field) ==
    Concat([k \in 1..Len(field) |->
               IF field[k] = "\"" THEN <<"\"", "\"">> ELSE <<field[k]>>])

\* a field writer that never quotes
WriteFieldBare(field) == field

WriteField(field) ==
    IF NeedsQuotes(field) THEN <<"\"">> \o DoubleQuotes(field) \o <<"\"">> ELSE field

\* writer.writerow(row): the fields joined by commas, then "\r\n"
writerow(row) ==
    Join([k \in 1..Len(row) |-> WriteField(row[k])], <<",">>) \o <<"\r", "\n">>

CsvHeader == <<(<<"Filename">>), (<<"Status">>), (<<"Timestamp">>), (<<"Extracted Text">>)>>

\* the row export_to_csv writes for one result
CsvRow(result) ==
    <<result.filename, result.status, result.timestamp, ReplaceLineBreaks(result.text)>>

\* def export_to_csv(results, file_path): the characters of the file
export_to_csv(results) ==
    writerow(CsvHeader) \o Concat([k \in 1..Len(results) |-> writerow(CsvRow(results[k]))])

\* Re-parsing: csv.reader(open(file_path, newline='')), dialect excel.
\* The file object hands the reader one line at a time, each with its
\* terminator ("\n", "\r" or "\r\n"); the reader feeds the characters of
\* the line and then an end-of-line mark to its state machine and
\* returns a row whenever the mark leaves it in START_RECORD.
EOL == "<end of line>"

\* the k-th smallest element of a set of numbers
Nth(set, k) == CHOOSE e \in set : Cardinality({x \in set : x <= e}) = k

\* chars cut after each of the given positions, and after the last
\* character
CutAfter(chars, ends) ==
    LET cuts == (ends \cap (1..Len(chars))) \cup (IF chars = <<>> THEN {} ELSE {Len(chars)})
    IN  [k \in 1..Cardinality(cuts) |->
            SubSeq(chars, IF k = 1 THEN 1 ELSE Nth(cuts, k - 1) + 1, Nth(cuts, k))]

\* iterating a file opened with newline='': a line ends after "\n",
\* after "\r\n", and after a "\r" that no "\n" follows
FileLines(chars) ==
    CutAfter(chars, {k \in 1..Len(chars) :
                        \/ chars[k] = "\n"
                        \/ chars[k] = "\r" /\ ~(k < Len(chars) /\ chars[k + 1] = "\n")})

ReaderStart ==
    [state |-> "START_RECORD", field |-> <<>>, fields |-> <<>>, rows |-> <<>>,
     ok |-> TRUE]

\* parse_save_field
SaveField(st, next) ==
    [st EXCEPT !.fields = Append(@, st.field), !.field = <<>>, !.state = next]

AddChar(st, c, next) == [st EXCEPT !.field = Append(@, c), !.state = next]

AfterLineBreak(c) == IF c = EOL THEN "START_RECORD" ELSE "EAT_CRNL"

\* parse_process_char from START_FIELD on
ProcessInRecord(st, c) ==
    IF st.state = "START_FIELD"
    THEN IF c \in {"\n", "\r", EOL} THEN SaveField(st, AfterLineBreak(c))
         ELSE IF c = "\"" THEN [st EXCEPT !.state = "IN_QUOTED_FIELD"]
         ELSE IF c = "," THEN SaveField(st, "START_FIELD")
         ELSE AddChar(st, c, "IN_FIELD")
    ELSE IF st.state = "IN_FIELD"
    THEN IF c \in {"\n", "\r", EOL} THEN SaveField(st, AfterLineBreak(c))
         ELSE IF c = "," THEN SaveField(st, "START_FIELD")
         ELSE AddChar(st, c, "IN_FIELD")
    ELSE IF st.state = "IN_QUOTED_FIELD"
    THEN IF c = EOL THEN st
         ELSE IF c = "\"" THEN [st EXCEPT !.state = "QUOTE_IN_QUOTED_FIELD"]
         ELSE AddChar(st, c, "IN_QUOTED_FIELD")
    ELSE IF st.state = "QUOTE_IN_QUOTED_FIELD"
    THEN IF c = "\"" THEN AddChar(st, c, "IN_QUOTED_FIELD")
         ELSE IF c = "," THEN SaveField(st, "START_FIELD")
         ELSE IF c \in {"\n", "\r", EOL} THEN SaveField(st, AfterLineBreak(c))
         ELSE AddChar(st, c, "IN_FIELD")
    ELSE \* EAT_CRNL
         IF c \in {"\n", "\r"} THEN st
         ELSE IF c = EOL THEN [st EXCEPT !.state = "START_RECORD"]
         ELSE [st EXCEPT !.ok = FALSE]

\* parse_process_char
ProcessChar(st, c) ==
    IF st.state = "START_RECORD"
    THEN IF c = EOL THEN st
         ELSE IF c \in {"\n", "\r"} THEN [st EXCEPT !.state = "EAT_CRNL"]
         ELSE ProcessInRecord([st EXCEPT !.state = "START_FIELD"], c)
    ELSE ProcessInRecord(st, c)

\* Reader.__next__: a row is complete when the end-of-line mark leaves the
\* machine in START_RECORD
Step(st, c) ==
    LET nxt == ProcessChar(st, c)
    IN  IF c = EOL /\ nxt.state = "START_RECORD" /\ st.state # "START_RECORD"
        THEN [nxt EXCEPT !.rows = Append(@, nxt.fields), !.fields = <<>>]
        ELSE nxt

RECURSIVE Feed(_, _)
\* the characters of one line
Feed(st, chars) ==
    IF ~st.ok \/ chars = <<>> THEN st ELSE Feed(Step(st, Head(chars)), Tail(chars))

RECURSIVE FeedLines(_, _)
\* line after line, each followed by the end-of-line mark
FeedLines(st, lines) ==
    IF ~st.ok \/ lines = <<>> THEN st
    ELSE FeedLines(Step(Feed(st, Head(lines)), EOL), Tail(lines))

\* list(csv.reader(f)): the rows, or an error; at the end of the file an
\* unfinished quoted field closes the last row
csv_reader(file) ==
    LET st == FeedLines(ReaderStart, FileLines(file))
    IN  [ok |-> st.ok,
         rows |-> IF st.state = "IN_QUOTED_FIELD"
                  THEN Append(st.rows, Append(st.fields, st.field))
                  ELSE st.rows]

\* json.dump(export_data, f, indent=2, ensure_ascii=False)
\* the indentation of a nesting level, a run of blanks
Indents == <<"  ", "    ", "      ">>
NewLine(level) == IF level = 0 THEN <<"\n">> ELSE <<"\n", Indents[level]>>

DigitChars == <<"0", "1", "2", "3", "4", "5", "6", "7", "8", "9">>

RECURSIVE JsonInt(_)
\* the decimal digits of a natural number
JsonInt(n) ==
    IF n < 10 THEN <<DigitChars[n + 1]>>
    ELSE JsonInt(n \div 10) \o <<DigitChars[(n % 10) + 1]>>

\* py_encode_basestring: the quote, the backslash and the control
\* characters are written as escapes, everything else as it is
EscapeChar(c) ==
    IF c = "\"" THEN <<"\\", "\"">>
    ELSE IF c = "\\" THEN <<"\\", "\\">>
    ELSE IF c = "\n" THEN <<"\\", "n">>
    ELSE IF c = "\r" THEN <<"\\", "r">>
    ELSE IF c = "\t" THEN <<"\\", "t">>
    ELSE <<c>>

JsonString(str) ==
    <<"\"">> \o Concat([k \in 1..Len(str) |-> EscapeChar(str[k])]) \o <<"\"">>

\* "key": value
Member(key, value) == JsonString(<<key>>) \o <<":", " ">> \o value

\* a non-empty object or array at the given nesting level
Block(open, items, close, level) ==
    <<open>>
    \o Concat([k \in 1..Len(items) |->
                  NewLine(level + 1) \o items[k]
                  \o (IF k < Len(items) THEN <<",">> ELSE <<>>)])
    \o NewLine(level) \o <<close>>

\* one result dictionary, keys in the order add_batch_result inserts them
JsonResult(result, level) ==
    Block("{", <<Member("filename", JsonString(result.filename)),
                 Member("text", JsonString(result.text)),
                 Member("status", JsonString(result.status)),
                 Member("timestamp", JsonString(result.timestamp))>>, "}", level)

JsonDocument(results, generated) ==
    Block("{",
          <<Member("metadata",
                   Block("{", <<Member("generated", JsonString(generated)),
                                Member("total_files", JsonInt(Len(results))),
                                Member("version", JsonString(<<"1.1.0">>))>>,
                         "}", 1)),
            Member("results",
                   IF results = <<>> THEN <<"[", "]">>
                   ELSE Block("[", [k \in 1..Len(results) |-> JsonResult(results[k], 2)],
                              "]", 1))>>,
          "}", 0)

\* export_to_json that flattens the text the way the CSV export does
export_to_json_flat(results, generated) ==
    JsonDocument([k \in 1..Len(results) |->
                     [results[k] EXCEPT !.text = ReplaceLineBreaks(@)]], generated)

\* def export_to_json(results, file_path): the characters of the file
export_to_json(results, generated) == JsonDocument(results, generated)

\* Re-parsing: json.load(open(file_path, encoding='utf-8')).
\* First the scanner: punctuation, strings with their escapes decoded,
\* numbers; white space between tokens is skipped; a raw control
\* character inside a string or an unknown escape is an error.
Token(kind, str, num) == [kind |-> kind, str |-> str, num |-> num]
BadToken == Token("error", <<>>, 0)

Unescaped(c) ==
    IF c = "n" THEN "\n"
    ELSE IF c = "r" THEN "\r"
    ELSE IF c = "t" THEN "\t"
    ELSE c

RECURSIVE ScanString(_, _)
\* chars follow the opening quote; the token and the rest after the
\* closing quote
ScanString(chars, acc) ==
    IF chars = <<>> THEN [tok |-> BadToken, rest |-> <<>>]
    ELSE IF Head(chars) = "\"" THEN [tok |-> Token("string", acc, 0), rest |-> Tail(chars)]
    ELSE IF Head(chars) \in {"\n", "\r", "\t"} THEN [tok |-> BadToken, rest |-> <<>>]
    ELSE IF Head(chars) = "\\"
         THEN IF Len(chars) >= 2 /\ chars[2] \in {"\"", "\\", "n", "r", "t"}
              THEN ScanString(Tail(Tail(chars)), Append(acc, Unescaped(chars[2])))
              ELSE [tok |-> BadToken, rest |-> <<>>]
    ELSE ScanString(Tail(chars), Append(acc, Head(chars)))

IsDigit(c) == \E d \in 1..10 : DigitChars[d] = c
DigitValue(c) == (CHOOSE d \in 1..10 : DigitChars[d] = c) - 1

RECURSIVE ScanNumber(_, _)
ScanNumber(chars, acc) ==
    IF chars # <<>> /\ IsDigit(Head(chars))
    THEN ScanNumber(Tail(chars), 10 * acc + DigitValue(Head(chars)))
    ELSE [tok |-> Token("number", <<>>, acc), rest |-> chars]

RECURSIVE Scan(_, _)
\* the tokens of a piece of the document that ends outside a string
Scan(chars, acc) ==
    IF chars = <<>> THEN acc
    ELSE IF Head(chars) \in {" ", "\n", "\r", "\t"} \cup {Indents[k] : k \in 1..Len(Indents)}
         THEN Scan(Tail(chars), acc)
    ELSE IF Head(chars) \in {"{", "}", "[", "]", ":", ","}
         THEN Scan(Tail(chars), Append(acc, Token(Head(chars), <<>>, 0)))
    ELSE LET s == IF Head(chars) = "\"" THEN ScanString(Tail(chars), <<>>)
                  ELSE IF IsDigit(Head(chars)) THEN ScanNumber(chars, 0)
                  ELSE [tok |-> BadToken, rest |-> <<>>]
         IN  IF s.tok = BadToken THEN Append(acc, BadToken)
             ELSE Scan(s.rest, Append(acc, s.tok))

\* A string cannot hold a raw line feed, so the document is scanned line
\* feed by line feed; an error ends the scan.
ScanDocument(file) ==
    LET lines == CutAfter(file, {k \in 1..Len(file) : file[k] = "\n"})
        toks == [k \in 1..Len(lines) |-> Scan(lines[k], <<>>)]
        Bad(k) == toks[k] # <<>> /\ toks[k][Len(toks[k])] = BadToken
    IN  IF \E k \in 1..Len(lines) : Bad(k)
        THEN <<BadToken>>
        ELSE Concat(toks)

\* Then the parser, for documents made of objects whose members are
\* strings and numbers.
NoObject == [ok |-> FALSE, pairs |-> <<>>, rest |-> <<>>]

RECURSIVE Members(_, _)
\* toks start at a member name; the members up to the closing brace
Members(toks, acc) ==
    IF \/ Len(toks) < 4
       \/ toks[1].kind # "string"
       \/ toks[2].kind # ":"
       \/ toks[3].kind \notin {"string", "number"}
    THEN NoObject
    ELSE LET pairs == Append(acc, [key |-> toks[1].str, val |-> toks[3]])
         IN  IF toks[4].kind = "," THEN Members(SubSeq(toks, 5, Len(toks)), pairs)
             ELSE IF toks[4].kind = "}"
             THEN [ok |-> TRUE, pairs |-> pairs, rest |-> SubSeq(toks, 5, Len(toks))]
             ELSE NoObject

FlatObject(toks) ==
    IF Len(toks) < 2 \/ toks[1].kind # "{" THEN NoObject
    ELSE IF toks[2].kind = "}"
    THEN [ok |-> TRUE, pairs |-> <<>>, rest |-> SubSeq(toks, 3, Len(toks))]
    ELSE Members(Tail(toks), <<>>)

NoArray == [ok |-> FALSE, items |-> <<>>, rest |-> <<>>]

RECURSIVE Elements(_, _)
\* toks start at an element; the elements up to the closing bracket
Elements(toks, acc) ==
    LET o == FlatObject(toks)
    IN  IF ~o.ok \/ o.rest = <<>> THEN NoArray
        ELSE IF o.rest[1].kind = "," THEN Elements(Tail(o.rest), Append(acc, o.pairs))
        ELSE IF o.rest[1].kind = "]"
        THEN [ok |-> TRUE, items |-> Append(acc, o.pairs), rest |-> Tail(o.rest)]
        ELSE NoArray

ArrayOfObjects(toks) ==
    IF Len(toks) < 2 \/ toks[1].kind # "[" THEN NoArray
    ELSE IF toks[2].kind = "]"
    THEN [ok |-> TRUE, items |-> <<>>, rest |-> SubSeq(toks, 3, Len(toks))]
    ELSE Elements(Tail(toks), <<>>)

HasKey(pairs, key) == \E k \in 1..Len(pairs) : pairs[k].key = <<key>>
\* the value of the last member of that name
Lookup(pairs, key) ==
    pairs[CHOOSE k \in 1..Len(pairs) :
             /\ pairs[k].key = <<key>>
             /\ \A j \in (k + 1)..Len(pairs) : pairs[j].key # <<key>>].val

NoDocument == [ok |-> FALSE, metadata |-> <<>>, results |-> <<>>]

\* json.load: {"metadata": {...}, "results": [...]}
json_load(file) ==
    LET toks == ScanDocument(file)
    IN  IF \/ Len(toks) < 4
           \/ toks[1].kind # "{"
           \/ toks[2] # Token("string", <<"metadata">>, 0)
           \/ toks[3].kind # ":"
        THEN NoDocument
        ELSE LET m == FlatObject(SubSeq(toks, 4, Len(toks)))
             IN  IF \/ ~m.ok
                    \/ Len(m.rest) < 4
                    \/ m.rest[1].kind # ","
                    \/ m.rest[2] # Token("string", <<"results">>, 0)
                    \/ m.rest[3].kind # ":"
                 THEN NoDocument
                 ELSE LET a == ArrayOfObjects(SubSeq(m.rest, 4, Len(m.rest)))
                      IN  IF ~a.ok \/ Len(a.rest) # 1 \/ a.rest[1].kind # "}"
                          THEN NoDocument
                          ELSE [ok |-> TRUE, metadata |-> m.pairs, results |-> a.items]

\* the parsed dictionary as a result record, when it has exactly the four
\* string members of one
ResultKeys == {"filename", "text", "status", "timestamp"}
IsResultDict(pairs) ==
    /\ {pairs[k].key : k \in 1..Len(pairs)} = {<<key>> : key \in ResultKeys}
    /\ \A k \in 1..Len(pairs) : pairs[k].val.kind = "string"
AsResult(pairs) == [key \in ResultKeys |-> Lookup(pairs, key).str]

NoRows == [ok |-> FALSE, rows |-> <<>>]

\* datetime.now().isoformat()
Generated == <<"2024-01-01T10:00:00">>

InitExport ==
    /\ NoWorker
    /\ \E results \in ResultLists :
          probe = [fn |-> "input", results |-> results, file |-> <<>>,
                   parsed |-> NoRows, loaded |-> NoDocument]

\* export_to_csv(results, file_path): the file is written, or open()
\* fails and the exception is re-raised
ExportCsv ==
    /\ probe.fn = "input"
    /\ \/ probe' = [probe EXCEPT !.fn = "export_to_csv",
                                 !.file = export_to_csv(probe.results)]
       \/ probe' = [probe EXCEPT !.fn = "OSError"]
    /\ UNCHANGED <<job, is_cancelled, pc, locals, events, calls, cancelledAt, tab>>

\* the written CSV file is parsed again
ReadCsv ==
    /\ probe.fn = "export_to_csv"
    /\ probe' = [probe EXCEPT !.fn = "csv.reader", !.parsed = csv_reader(probe.file)]
    /\ UNCHANGED <<job, is_cancelled, pc, locals, events, calls, cancelledAt, tab>>

\* export_to_json(results, file_path)
ExportJson ==
    /\ probe.fn = "input"
    /\ \/ probe' = [probe EXCEPT !.fn = "export_to_json",
                                 !.file = export_to_json(probe.results, Generated)]
       \/ probe' = [probe EXCEPT !.fn = "OSError"]
    /\ UNCHANGED <<job, is_cancelled, pc, locals, events, calls, cancelledAt, tab>>

\* the written JSON file is parsed again
ReadJson ==
    /\ probe.fn = "export_to_json"
    /\ probe' = [probe EXCEPT !.fn = "json.load", !.loaded = json_load(probe.file)]
    /\ UNCHANGED <<job, is_cancelled, pc, locals, events, calls, cancelledAt, tab>>

NextExport ==
    \/ ExportCsv
    \/ ReadCsv
    \/ ExportJson
    \/ ReadJson

\* every result list of the pool exported and parsed again
SpecExport == InitExport /\ [][NextExport]_vars

\* C19: the CSV file parses back into the header row followed by one row
\* per result in list order - filename, status, timestamp and the text
\* with every line feed and carriage return replaced by a blank - so
\* there are exactly as many data rows as results, also when a status or
\* a file name contains a line break.
C19_CsvOneRowPerResult ==
    probe.fn = "csv.reader"
        => /\ probe.parsed.ok
           /\ Len(probe.parsed.rows) = 1 + Len(probe.results)
           /\ probe.parsed.rows[1] = CsvHeader
           /\ \A k \in 1..Len(probe.results) :
                 /\ probe.parsed.rows[k + 1] =
                       <<probe.results[k].filename, probe.results[k].status,
                         probe.results[k].timestamp,
                         ReplaceLineBreaks(probe.results[k].text)>>
                 /\ \A j \in 1..Len(probe.parsed.rows[k + 1][4]) :
                       probe.parsed.rows[k + 1][4][j] \notin {"\n", "\r"}

\* C19 witness: two results parsed back, the first with a line break in
\* its status and in its file name, and a text with line breaks.
C19_Witness ==
    /\ probe.fn = "csv.reader"
    /\ Len(probe.results) = 2
    /\ "\n" \in {probe.results[1].status[k] : k \in 1..Len(probe.results[1].status)}
    /\ "\r" \in {probe.results[1].filename[k] : k \in 1..Len(probe.results[1].filename)}
    /\ probe.results[1].text = <<"a", "\n", "b", "\r", "\n">>
    /\ Len(probe.parsed.rows) = 3
    /\ probe.parsed.rows[2][4] = <<"a", " ", "b", " ", " ">>

\* C20: the JSON file parses back into a results array equal to the input
\* list record for record, in order, with the text unmodified, and a
\* metadata total equal to the number of results.
C20_JsonRoundTrip ==
    probe.fn = "json.load"
        => /\ probe.loaded.ok
           /\ Len(probe.loaded.results) = Len(probe.results)
           /\ \A k \in 1..Len(probe.results) :
                 /\ IsResultDict(probe.loaded.results[k])
                 /\ AsResult(probe.loaded.results[k]) = probe.results[k]
           /\ HasKey(probe.loaded.metadata, "total_files")
           /\ Lookup(probe.loaded.metadata, "total_files") =
                 Token("number", <<>>, Len(probe.results))

\* C20 witness: two results read back, one with line breaks in its text
\* and one with a backslash, a quote and a tab.
C20_Witness ==
    /\ probe.fn = "json.load"
    /\ probe.loaded.ok
    /\ Len(probe.results) = 2
    /\ probe.results[1].text = <<"a", "\n", "b", "\r", "\n">>
    /\ probe.results[2].text = <<"\\", "n", "\"", "\t">>
    /\ Lookup(probe.loaded.results[1], "text").str = <<"a", "\n", "b", "\r", "\n">>
    /\ Lookup(probe.loaded.results[2], "text").str = <<"\\", "n", "\"", "\t">>

----------------------------------------------------------------------------
(* The progress value: the loop of BatchProcessor.run() reduced to its
   counter, for totals beyond the file lists of the worker model *)

MaxTotal == 14

\* a run over n files that all load: before the first item
InitProgress ==
    /\ NoWorker
    /\ \E n \in 1..MaxTotal :
          probe = [fn |-> "run", total_files |-> n, i |-> 0, progress |-> 0]

\* progress = int((i + 1) / total_files * 100); progress_updated.emit(progress)
\* at the end of iteration i
EmitProgressValue ==
    /\ probe.fn = "run"
    /\ probe.i < probe.total_files
    /\ probe' = [probe EXCEPT !.progress = Progress(probe.i, probe.total_files),
                               !.i = probe.i + 1]
    /\ UNCHANGED <<job, is_cancelled, pc, locals, events, calls, cancelledAt, tab>>

NextProgress == EmitProgressValue

SpecProgress == InitProgress /\ [][NextProgress]_vars

Abs(x) == IF x < 0 THEN -x ELSE x

\* v is an integer nearest to 100 * done / n (either neighbour on a tie)
IsRounded(v, done, n) == 2 * Abs(100 * done - v * n) <= n

\* C22: the value emitted after the i-th of N items is round(100 * i / N).
C22_ProgressIsRounded ==
    (probe.fn = "run" /\ probe.i >= 1)
        => IsRounded(probe.progress, probe.i, probe.total_files)

----------------------------------------------------------------------------
(* Perspective correction: ordering the four vertices of the detected
   quadrilateral.  A point is <<x, y>>, y growing downwards. *)

MaxCoord == 2

Points == (0..MaxCoord) \X (0..MaxCoord)

\* approx.reshape(4, 2): the four vertices in contour order
Quads ==
    {q \in [1..4 -> Points] : \A m, n \in 1..4 : m # n => q[m] # q[n]}

\* np.argmin / np.argmax: the first index holding the extreme value
np_argmin(vals) ==
    CHOOSE n \in 1..Len(vals) :
        /\ \A m \in 1..Len(vals) : vals[n] <= vals[m]
        /\ \A m \in 1..(n - 1) : vals[m] > vals[n]
np_argmax(vals) ==
    CHOOSE n \in 1..Len(vals) :
        /\ \A m \in 1..Len(vals) : vals[n] >= vals[m]
        /\ \A m \in 1..(n - 1) : vals[m] < vals[n]

\* order_points with the difference taken as x - y
order_points_x_minus_y(pts) ==
    LET s == [n \in 1..4 |-> pts[n][1] + pts[n][2]]
        diff == [n \in 1..4 |-> pts[n][1] - pts[n][2]]
    IN  <<pts[np_argmin(s)], pts[np_argmin(diff)],
          pts[np_argmax(s)], pts[np_argmax(diff)]>>

\* rect[0..3] of _correct_perspective: s = pts.sum(axis=1);
\* diff = np.diff(pts, axis=1), which is column 1 minus column 0, y - x
order_points(pts) ==
    LET s == [n \in 1..4 |-> pts[n][1] + pts[n][2]]
        diff == [n \in 1..4 |-> pts[n][2] - pts[n][1]]
    IN  <<pts[np_argmin(s)], pts[np_argmin(diff)],
          pts[np_argmax(s)], pts[np_argmax(diff)]>>

InitQuad ==
    /\ NoWorker
    /\ \E q \in Quads : probe = [fn |-> "input", pts |-> q, rect |-> <<>>]

OrderPoints ==
    /\ probe.fn = "input"
    /\ probe' = [probe EXCEPT !.fn = "order_points",
                               !.rect = order_points(probe.pts)]
    /\ UNCHANGED <<job, is_cancelled, pc, locals, events, calls, cancelledAt, tab>>

NextQuad == OrderPoints

\* the ordering applied to every four distinct grid points in every order
SpecQuad == InitQuad /\ [][NextQuad]_vars

Ordered == probe.fn = "order_points"
Vertices == {probe.pts[n] : n \in 1..4}
XPlusY(p) == p[1] + p[2]
XMinusY(p) == p[1] - p[2]
YMinusX(p) == p[2] - p[1]

\* C24 as stated: the second vertex has the least x - y, the fourth the
\* greatest x - y.
C24_DifferenceIsXMinusY ==
    Ordered =>
        /\ probe.rect[1] \in Vertices /\ probe.rect[2] \in Vertices
        /\ probe.rect[3] \in Vertices /\ probe.rect[4] \in Vertices
        /\ \A p \in Vertices :
              /\ XPlusY(probe.rect[1]) <= XPlusY(p)
              /\ XPlusY(probe.rect[3]) >= XPlusY(p)
              /\ XMinusY(probe.rect[2]) <= XMinusY(p)
              /\ XMinusY(probe.rect[4]) >= XMinusY(p)

\* C24: the vertices are listed top-left, top-right, bottom-right,
\* bottom-left, where top-left has the least x + y, bottom-right the
\* greatest x + y, top-right the least y - x (the greatest x - y) and
\* bottom-left the greatest y - x (the least x - y).
C24_DifferenceIsYMinusX ==
    Ordered =>
        /\ probe.rect[1] \in Vertices /\ probe.rect[2] \in Vertices
        /\ probe.rect[3] \in Vertices /\ probe.rect[4] \in Vertices
        /\ \A p \in Vertices :
              /\ XPlusY(probe.rect[1]) <= XPlusY(p)
              /\ XPlusY(probe.rect[3]) >= XPlusY(p)
              /\ YMinusX(probe.rect[2]) <= YMinusX(p)
              /\ YMinusX(probe.rect[4]) >= YMinusX(p)

\* C24 witness: the corners of an upright square, given in another order,
\* come out as top-left, top-right, bottom-right, bottom-left.
C24_Witness ==
    /\ Ordered
    /\ probe.pts = <<<<2, 2>>, <<0, 2>>, <<2, 0>>, <<0, 0>>>>
    /\ probe.rect = <<<<0, 0>>, <<2, 0>>, <<2, 2>>, <<0, 2>>>>

----------------------------------------------------------------------------
(* Choosing the export format and reporting the outcome: the batch tab's
   export_batch_results and the command-line example.  Paths and dialog
   filters are written character by character, because the code tests
   them with str.endswith and the `in` operator. *)

\* "=" * 50, "-" * 30
Repeat(c, n) == [k \in 1..n |-> c]

\* the block export_to_txt writes for the result at position idx
TxtBlock(idx, result) ==
    <<"File ">> \o JsonInt(idx) \o <<": ">> \o result.filename \o <<"\n">>
    \o <<"Status: ">> \o result.status \o <<"\n">>
    \o <<"Processed: ">> \o result.timestamp \o <<"\n">>
    \o <<"Extracted Text:", "\n">>
    \o Repeat("-", 30) \o <<"\n">>
    \o (IF result.text # <<>> THEN result.text ELSE <<"(No text detected)">>)
    \o <<"\n">> \o Repeat("=", 50) \o <<"\n", "\n">>

\* def export_to_txt(results, file_path): the characters of the file
export_to_txt(results, generated) ==
    <<"OCR Batch Processing Results", "\n">>
    \o Repeat("=", 50) \o <<"\n">>
    \o <<"Generated: ">> \o generated \o <<"\n">>
    \o <<"Total files processed: ">> \o JsonInt(Len(results)) \o <<"\n", "\n">>
    \o Concat([k \in 1..Len(results) |-> TxtBlock(k, results[k])])

GeneratedTxt == <<"2024-01-01 10:00:00">>

\* what the file system does to the call: it takes all of it, open()
\* fails, or a write fails after none or all but the last character
IoOutcomes == {"ok", "open fails", "write fails at once", "write fails late"}

NoFile == [exists |-> FALSE, chars |-> <<>>]
FileWith(chars) == [exists |-> TRUE, chars |-> chars]
NoCall == [raised |-> FALSE, file |-> NoFile]

\* the file a failed call leaves behind
LeftBehind(content, io) ==
    IF io = "open fails" THEN NoFile
    ELSE IF io = "write fails at once" THEN FileWith(<<>>)
    ELSE FileWith(SubSeq(content, 1, Len(content) - 1))

\* an export that logs the failure and returns as if it had written
TryExportSwallowing(content, io) ==
    IF io = "ok" THEN [raised |-> FALSE, file |-> FileWith(content)]
    ELSE [raised |-> FALSE, file |-> LeftBehind(content, io)]

\* the frame shared by the three export functions:
\* try: with open(file_path, 'w') as f: <writes> / except Exception: log; raise
TryExport(content, io) ==
    IF io = "ok" THEN [raised |-> FALSE, file |-> FileWith(content)]
    ELSE [raised |-> TRUE, file |-> LeftBehind(content, io)]

\* str.endswith
endswith(str, suffix) ==
    /\ Len(str) >= Len(suffix)
    /\ SubSeq(str, Len(str) - Len(suffix) + 1, Len(str)) = suffix

\* sub in str
Contains(sub, str) ==
    \E k \in 1..(Len(str) - Len(sub) + 1) : SubSeq(str, k, k + Len(sub) - 1) = sub

DotCsv == <<".", "c", "s", "v">>
DotJson == <<".", "j", "s", "o", "n">>

\* EXPORT_FORMATS.values(), the filters of the save dialog
EXPORT_FORMATS ==
    [txt |-> <<"T", "e", "x", "t", " ", "F", "i", "l", "e", "s", " ",
               "(", "*", ".", "t", "x", "t", ")">>,
     csv |-> <<"C", "S", "V", " ", "F", "i", "l", "e", "s", " ",
               "(", "*", ".", "c", "s", "v", ")">>,
     json |-> <<"J", "S", "O", "N", " ", "F", "i", "l", "e", "s", " ",
                "(", "*", ".", "j", "s", "o", "n", ")">>]
Filters == {EXPORT_FORMATS.txt, EXPORT_FORMATS.csv, EXPORT_FORMATS.json}

\* target paths: the three extensions, none, an upper-case one, two in a row
ExportPaths ==
    {<<"o">> \o DotCsv, <<"o">> \o DotJson, <<"o", ".", "t", "x", "t">>, <<"o">>,
     <<"o", ".", "C", "S", "V">>, <<"o">> \o DotCsv \o DotJson}

\* QFileDialog.getSaveFileName: a path with the selected filter, or two
\* empty strings when the dialog is cancelled
DialogOutcomes ==
    [file_path : ExportPaths, selected_filter : Filters]
        \cup {[file_path |-> <<>>, selected_filter |-> <<>>]}

\* the branch export_batch_results takes
TabFormat(path, selected_filter) ==
    IF endswith(path, DotCsv) \/ Contains(<<"C", "S", "V">>, selected_filter)
    THEN "csv"
    ELSE IF endswith(path, DotJson)
            \/ Contains(<<"J", "S", "O", "N">>, selected_filter)
    THEN "json"
    ELSE "txt"

\* the branch the example's main() takes
ExampleFormat(output_file) ==
    IF endswith(output_file, DotCsv) THEN "csv"
    ELSE IF endswith(output_file, DotJson) THEN "json"
    ELSE "txt"

\* the characters the export function of a format writes
ContentAs(format, results) ==
    IF format = "csv" THEN export_to_csv(results)
    ELSE IF format = "json" THEN export_to_json(results, Generated)
    ELSE export_to_txt(results, GeneratedTxt)

\* the result lists the tab and the example hand to the exporter
HandlerResults ==
    {r \in ExportResults :
        /\ r.filename = <<"a.png">> /\ r.status = <<"Success">>
        /\ r.text \in {<<>>, <<"a", "\n", "b", "\r", "\n">>}}
HandlerLists == UNION {[1..n -> HandlerResults] : n \in 0..MaxResults}

InitHandler ==
    /\ NoWorker
    /\ \E results \in HandlerLists :
          probe = [fn |-> "input", given |-> results, batch_results |-> results,
                   file_path |-> <<>>, selected_filter |-> <<>>, io |-> "ok",
                   format |-> "none", call |-> NoCall, message |-> "none"]

\* BatchProcessingTab.export_batch_results
ExportBatchResults ==
    /\ probe.fn = "input"
    /\ IF probe.batch_results = <<>>
       THEN probe' = [probe EXCEPT !.fn = "export_batch_results"]
       ELSE \E dialog \in DialogOutcomes, io \in IoOutcomes :
              IF dialog.file_path = <<>>
              THEN probe' = [probe EXCEPT !.fn = "export_batch_results"]
              ELSE LET format == TabFormat(dialog.file_path, dialog.selected_filter)
                       call == TryExport(ContentAs(format, probe.batch_results), io)
                   IN  probe' = [probe EXCEPT
                           !.fn = "export_batch_results",
                           !.file_path = dialog.file_path,
                           !.selected_filter = dialog.selected_filter,
                           !.io = io, !.format = format, !.call = call,
                           !.message = IF call.raised THEN "Export Error"
                                       ELSE "Export Complete"]
    /\ UNCHANGED <<job, is_cancelled, pc, locals, events, calls, cancelledAt, tab>>

\* main() of the example, from the export on; its result list is never
\* empty (it exits before when no input file exists)
ExampleExport ==
    /\ probe.fn = "input"
    /\ probe.batch_results # <<>>
    /\ \E output_file \in ExportPaths, io \in IoOutcomes :
          LET format == ExampleFormat(output_file)
              call == TryExport(ContentAs(format, probe.batch_results), io)
          IN  probe' = [probe EXCEPT
                  !.fn = "main", !.file_path = output_file,
                  !.io = io, !.format = format, !.call = call,
                  !.message = IF call.raised THEN "Error during batch processing"
                              ELSE "Results saved to"]
    /\ UNCHANGED <<job, is_cancelled, pc, locals, events, calls, cancelledAt, tab>>

NextHandler ==
    \/ ExportBatchResults
    \/ ExampleExport

\* every list exported through the tab and through the example, to every
\* path, under every filter, with every behaviour of the file system
SpecHandler == InitHandler /\ [][NextHandler]_vars

Exported == probe.fn \in {"export_batch_results", "main"} /\ probe.format # "none"

\* C25: a path ending in .csv is written as CSV, a path ending in .json
\* as JSON, any other path as TXT, whatever filter the dialog returned.
C25_ExtensionDecides ==
    Exported =>
        /\ endswith(probe.file_path, DotCsv) => probe.format = "csv"
        /\ endswith(probe.file_path, DotJson) => probe.format = "json"
        /\ (~endswith(probe.file_path, DotCsv) /\ ~endswith(probe.file_path, DotJson))
              => probe.format = "txt"

\* C21: when the file system fails an export call, whichever of the three
\* functions it is, the function raises, the caller shows its error
\* message and not its success message, and the result list is the one
\* handed in; when nothing fails, the whole file is there and success is
\* reported.
C21_WriteFailurePropagates ==
    Exported =>
        /\ probe.batch_results = probe.given
        /\ probe.io # "ok" =>
              /\ probe.call.raised
              /\ probe.message \in {"Export Error", "Error during batch processing"}
        /\ probe.io = "ok" =>
              /\ ~probe.call.raised
              /\ probe.call.file = FileWith(ContentAs(probe.format, probe.given))
              /\ probe.message \in {"Export Complete", "Results saved to"}

\* C21 witness: the tab exported two results as text, the write failed
\* near the end, and the error box was shown.
C21_Witness ==
    /\ probe.fn = "export_batch_results" /\ probe.format = "txt"
    /\ probe.io = "write fails late"
    /\ Len(probe.batch_results) = 2
    /\ probe.call.raised /\ probe.call.file.exists
    /\ probe.message = "Export Error"

====
